---- MODULE Spec2Model ----
(***************************************************************************)
(* Scheduling and execution engine of the workflow orchestrator:           *)
(* the DAG validator (dag.py), the run planner (build_run_tasks), the      *)
(* scheduler (scheduler.py), the persistence store (persistence.py) and    *)
(* the worker loop (worker.py).  Every persistence call of the scheduler   *)
(* and of a worker is one atomic step; workers interleave freely.          *)
(***************************************************************************)
EXTENDS Integers, Sequences, FiniteSets, TLC

(***************************************************************************)
(* Bounds of the model.                                                    *)
(***************************************************************************)
\* largest number of tasks of an enumerated DAG document
MaxTasks == 3
\* largest total number of dependency entries of an enumerated DAG document
MaxEdges == 4
\* largest configured retry count of a task of a scheduled DAG
MaxRetries == 1
\* number of concurrent workers
NumWorkers == 2
\* _schedule_downstream is called again while no item was pushed more often
MaxRepeatedPushes == 1
\* largest exit code of a command or callable process; -1 is death by a signal
MaxExitCode == 2
\* largest retry count of the task whose retries are followed to the end
MaxBackoffRetries == 3
\* largest number of commands issued on one RedisPersistence object
MaxCommands == 3
\* number of payload dicts the caller of the two backends owns
MaxObjects == 2
\* largest number of push_task_queue calls made on the two backends
MaxPushes == 2

\* the task ids, in the insertion order of DAG.tasks
TaskUniverse == <<"a", "b", "c", "d", "e">>
\* an id that is no key of DAG.tasks
UnknownId == "x"
\* the run_id a direct caller of schedule_dag passes
FirstRunId == "r1"

Range(s) == {s[i] : i \in DOMAIN s}
Contains(s, x) == \E i \in DOMAIN s : s[i] = x

(***************************************************************************)
(* dag.py: a DAG document is [ids, deps, retries]: ids is the insertion    *)
(* order of the dict DAG.tasks, deps[t] the list Task.dependencies,        *)
(* retries[t] the field Task.retries and metadata[t] the dict              *)
(* Task.metadata.                                                          *)
(***************************************************************************)
TaskIds(dag) == Range(dag.ids)

\* validate, first loop: some task lists a dependency that is no key of tasks
MissingDependencies(dag) ==
    {t \in TaskIds(dag) : Range(dag.deps[t]) \ TaskIds(dag) # {}}

\* _has_cycle: indegree[task.id] += 1 for every entry of task.dependencies
InitialIndegree(dag) == [t \in TaskIds(dag) |-> Len(dag.deps[t])]

\* deque(task_id for task_id, degree in indegree.items() if degree == 0)
ZeroIndegree(dag, indegree) == SelectSeq(dag.ids, LAMBDA t : indegree[t] = 0)

\* _has_cycle, inner loop: for task in self.tasks.values(): if current in
\* task.dependencies: indegree[task.id] -= 1; append when it reaches 0
RECURSIVE HasCycleRelax(_, _, _, _, _)
HasCycleRelax(dag, current, i, indegree, queue) ==
    IF i > Len(dag.ids)
    THEN [indegree |-> indegree, queue |-> queue]
    ELSE LET t == dag.ids[i]
             dec == [indegree EXCEPT ![t] = @ - 1]
         IN  IF Contains(dag.deps[t], current)
             THEN HasCycleRelax(dag, current, i + 1, dec,
                                IF dec[t] = 0 THEN Append(queue, t) ELSE queue)
             ELSE HasCycleRelax(dag, current, i + 1, indegree, queue)

\* _has_cycle, while queue: popleft, visited += 1, relax
RECURSIVE HasCycleLoop(_, _, _, _)
HasCycleLoop(dag, indegree, queue, visited) ==
    IF queue = <<>>
    THEN visited
    ELSE LET r == HasCycleRelax(dag, Head(queue), 1, indegree, Tail(queue))
         IN  HasCycleLoop(dag, r.indegree, r.queue, visited + 1)

\* VisitedAll with `>` for `!=`: fewer visits than tasks pass for all visited
VisitedAtMost(visited, count) == visited <= count

VisitedAll(visited, count) == visited = count

_has_cycle(dag) ==
    LET indegree == InitialIndegree(dag)
    IN  ~VisitedAll(HasCycleLoop(dag, indegree, ZeroIndegree(dag, indegree), 0),
                    Len(dag.ids))

\* validate with the cycle check ahead of the dependency check
validateCycleFirst(dag) ==
    IF _has_cycle(dag) THEN "Cycle"
    ELSE IF MissingDependencies(dag) # {} THEN "UnknownDependency"
    ELSE "ok"

\* DAG.validate: "ok", or the error it raises
validate(dag) ==
    IF MissingDependencies(dag) # {} THEN "UnknownDependency"
    ELSE IF _has_cycle(dag) THEN "Cycle"
    ELSE "ok"

\* adjacency[dep].append(task.id), tasks in insertion order, one entry per
\* entry of task.dependencies equal to dep
RECURSIVE AdjacencyOf(_, _, _, _)
AdjacencyOf(dag, dep, i, j) ==
    IF i > Len(dag.ids) THEN <<>>
    ELSE IF j > Len(dag.deps[dag.ids[i]]) THEN AdjacencyOf(dag, dep, i + 1, 1)
    ELSE (IF dag.deps[dag.ids[i]][j] = dep THEN <<dag.ids[i]>> ELSE <<>>)
         \o AdjacencyOf(dag, dep, i, j + 1)

\* Adjacency with the forward list: adjacency[task.id] = task.dependencies
AdjacencyForward(dag) == [d \in TaskIds(dag) |-> dag.deps[d]]

Adjacency(dag) == [d \in TaskIds(dag) |-> AdjacencyOf(dag, d, 1, 1)]

\* TopoRelax without the indegree test: a neighbor is appended as soon as one
\* of its dependencies is emitted
RECURSIVE TopoRelaxEager(_, _, _, _)
TopoRelaxEager(neighbors, i, indegree, queue) ==
    IF i > Len(neighbors)
    THEN [indegree |-> indegree, queue |-> queue]
    ELSE TopoRelaxEager(neighbors, i + 1,
                        [indegree EXCEPT ![neighbors[i]] = @ - 1],
                        Append(queue, neighbors[i]))

\* topological_sort, inner loop: for neighbor in adjacency[node]
RECURSIVE TopoRelax(_, _, _, _)
TopoRelax(neighbors, i, indegree, queue) ==
    IF i > Len(neighbors)
    THEN [indegree |-> indegree, queue |-> queue]
    ELSE LET n == neighbors[i]
             dec == [indegree EXCEPT ![n] = @ - 1]
         IN  TopoRelax(neighbors, i + 1, dec,
                       IF dec[n] = 0 THEN Append(queue, n) ELSE queue)

\* topological_sort, while queue: popleft, order.append(node), relax
RECURSIVE TopoLoop(_, _, _, _)
TopoLoop(adjacency, indegree, queue, order) ==
    IF queue = <<>>
    THEN order
    ELSE LET node == Head(queue)
             r == TopoRelax(adjacency[node], 1, indegree, Tail(queue))
         IN  TopoLoop(adjacency, r.indegree, r.queue, Append(order, node))

\* DAG.topological_sort: [err, order]; adjacency[dep] of an unknown dep is a
\* KeyError, an order shorter than tasks a CycleError
topological_sort(dag) ==
    IF MissingDependencies(dag) # {}
    THEN [err |-> "KeyError", order |-> <<>>]
    ELSE LET indegree == InitialIndegree(dag)
             order == TopoLoop(Adjacency(dag), indegree,
                               ZeroIndegree(dag, indegree), <<>>)
         IN  IF Len(order) # Len(dag.ids)
             THEN [err |-> "Cycle", order |-> <<>>]
             ELSE [err |-> "ok", order |-> order]


\* build_run_tasks: one base payload per task, in the insertion order of tasks;
\* downstream is adjacency[task_id].  The fields the executor alone reads
\* (command, callable, timeout_seconds, retry_delay_seconds) are strings,
\* integers or None, are carried unchanged by every step and are left out.
TaskRunId(run_id, task_id, attempt) == <<run_id, task_id, attempt>>
CanonicalKey(run_id, task_id) == <<run_id, task_id>>
RunKey(run_id) == <<"run", run_id>>

BasePayload(dag, run_id, t) ==
    [task_run_id |-> TaskRunId(run_id, t, 0), run_id |-> run_id, task_id |-> t,
     dag_id |-> dag.id, attempt |-> 0, retries |-> dag.retries[t],
     dependencies |-> dag.deps[t], downstream |-> Adjacency(dag)[t],
     metadata |-> dag.metadata[t]]

build_run_tasks(dag, run_id) ==
    [i \in 1..Len(dag.ids) |-> BasePayload(dag, run_id, dag.ids[i])]

\* schedule_dag: blueprint = {task["task_id"]: copy.deepcopy(task) for task in tasks}
Blueprint(tasks) ==
    [t \in {tasks[i].task_id : i \in DOMAIN tasks} |->
        LET i == CHOOSE j \in DOMAIN tasks : tasks[j].task_id = t IN tasks[i]]

\* schedule_dag, first loop: task["dag_blueprint"], task["attempt"], task["task_run_id"]
PlannedTasks(dag, run_id) ==
    LET tasks == build_run_tasks(dag, run_id)
        blueprint == Blueprint(tasks)
    IN  [i \in DOMAIN tasks |->
            [dag_blueprint |-> blueprint] @@
            [tasks[i] EXCEPT !.attempt = 0,
                             !.task_run_id = TaskRunId(run_id, tasks[i].task_id, 0)]]

\* IsRunnable without the test: every task is seeded
IsRunnableAlways(task) == TRUE

\* schedule_dag: if not task["dependencies"]: runnable.append(task)
IsRunnable(task) == task.dependencies = <<>>

Runnable(dag, run_id) == SelectSeq(PlannedTasks(dag, run_id), IsRunnable)

(***************************************************************************)
(* The DAG documents, built task by task.  A task's dependencies never     *)
(* name the task itself (Task._ensure_command_or_callable rejects it at    *)
(* construction) and the key of a task in DAG.tasks is its id.             *)
(***************************************************************************)
\* Task.metadata by default: an empty dict
EmptyMetadata == <<>>

MakeDag(ids, deplists, retries) ==
    [id |-> "demo", ids |-> ids,
     deps |-> [t \in Range(ids) |->
                  deplists[CHOOSE i \in DOMAIN ids : ids[i] = t]],
     retries |-> [t \in Range(ids) |-> retries],
     metadata |-> [t \in Range(ids) |-> EmptyMetadata]]

\* DAG(id="demo", name=..., tasks={})
EmptyDag == MakeDag(<<>>, <<>>, 0)

\* the number of dependency entries of the tasks from index i on
RECURSIVE EdgeCount(_, _)
EdgeCount(d, i) ==
    IF i > Len(d.ids) THEN 0 ELSE Len(d.deps[d.ids[i]]) + EdgeCount(d, i + 1)

\* tasks[id] = Task(id=id, ..., dependencies=[]): the next id of TaskUniverse
WithTask(d) ==
    LET t == TaskUniverse[Len(d.ids) + 1]
    IN  [d EXCEPT !.ids = Append(@, t),
                  !.deps = [u \in Range(d.ids) \cup {t} |->
                               IF u = t THEN <<>> ELSE d.deps[u]],
                  !.retries = [u \in Range(d.ids) \cup {t} |->
                                  IF u = t THEN 0 ELSE d.retries[u]],
                  !.metadata = [u \in Range(d.ids) \cup {t} |->
                                   IF u = t THEN EmptyMetadata ELSE d.metadata[u]]]

\* one more entry in the dependencies of task t
WithDependency(d, t, dep) == [d EXCEPT !.deps[t] = Append(@, dep)]

\* the valid DAGs that are scheduled and run by workers
RetryDag(ids, deplists) ==
    LET d == MakeDag(ids, deplists, 0)
    IN  [d EXCEPT !.retries =
            [t \in Range(ids) |-> IF t \in {"a", "d"} THEN MaxRetries ELSE 0]]

LinearDag == RetryDag(<<"a", "b", "c">>, <<<<>>, <<"a">>, <<"b">>>>)
DiamondDag == RetryDag(<<"a", "b", "c", "d">>, <<<<>>, <<"a">>, <<"a">>, <<"b", "c">>>>)
FanInChainDag == RetryDag(<<"b", "c", "d", "e">>, <<<<>>, <<>>, <<"b", "c">>, <<"d">>>>)
IndependentDag == RetryDag(<<"a", "b">>, <<<<>>, <<>>>>)

RunDags == {LinearDag, DiamondDag, FanInChainDag, IndependentDag}

\* a -> b with every retry count up to MaxBackoffRetries
BackoffDags ==
    {MakeDag(<<"a", "b">>, <<<<>>, <<"a">>>>, r) : r \in 0..MaxBackoffRetries}

\* run ids a caller of schedule_dag can pass, and a DAG with a task named "run"
RunIds == {FirstRunId, "run"}
RunNamedDag == RetryDag(<<"a", "run">>, <<<<>>, <<"a">>>>)

(***************************************************************************)
(* State.                                                                  *)
(***************************************************************************)
Workers == 1..NumWorkers

VARIABLES
    dag,           \* the DAG document handed to the scheduler
    call,          \* the outcome of a direct call of validate / topological_sort
    sched,         \* Scheduler.schedule_dag: its position and loop index
    dags,          \* persistence: _dags, dag id -> the stored dag_json
    statuses,      \* persistence: _statuses, key -> record
    queue,         \* persistence: _queue, the task queue, head popped first
    wk,            \* per worker: position in Worker.run and its locals
    executions,    \* task_run_id -> number of times it was passed to the executor
    loop_forever,  \* the argument of Worker.run
    cancel,        \* api.cancel_run: its position and locals
    pushes,        \* task_run_id -> number of times it was pushed onto the queue
    memory,        \* an InMemoryPersistence driven call by call
    redis,         \* a RedisPersistence driven by the same calls
    caller,        \* the dicts the caller of the two backends holds, and what the calls returned
    available,     \* whether the Redis server answers
    api            \* api.trigger_run / api.register_dag: position and locals

backendVars == <<memory, redis, caller>>

vars == <<dag, call, sched, dags, statuses, queue, wk, executions, loop_forever,
          available, api, cancel, pushes, backendVars>>

\* the run_id argument of Scheduler.schedule_dag
RunId == sched.run_id

NoPayload == [task_id |-> "none"]
NoResult == [status |-> "none"]
NoCall == [fn |-> "none"]

\* delay is the argument of the last time.sleep of _process_task
IdleWorker == [pc |-> "pop", payload |-> NoPayload, result |-> NoResult,
               child |-> 0, dep |-> 0, delay |-> 0]

\* cancel_run not called yet
IdleCancel == [pc |-> "idle", i |-> 0, run_meta |-> <<>>, status |-> <<>>]

\* InMemoryPersistence.__init__: _queue, _dags, _statuses
EmptyMemory == [queue |-> <<>>, dags |-> <<>>, statuses |-> <<>>]

\* a Redis server without keys: the list queue_key, the dag and status strings
EmptyRedis == [list |-> <<>>, dags |-> <<>>, statuses |-> <<>>]

\* the payload dicts the caller of the two backends owns
Objects == 1..MaxObjects

\* an Optional return value: <<>> is None, <<v>> is the value v
None == <<>>
Some(v) == <<v>>

\* nothing received from get_task_status yet
NoHeld == [key |-> <<>>, live |-> FALSE, memory |-> <<>>, redis |-> <<>>]

\* the caller of the two backends before its first call: its own dicts objs,
\* the dict it holds from get_task_status (from either backend; live while
\* the in-memory store still maps the key to that very dict), what the last
\* call returned on either backend, and the log of pushes and pops
NoCaller ==
    [fn |-> "none",
     objs |-> [o \in Objects |-> [task_id |-> TaskUniverse[o], attempt |-> 0]],
     held |-> NoHeld,
     ret |-> [memory |-> None, redis |-> None],
     pushed |-> <<>>, popped |-> [memory |-> <<>>, redis |-> <<>>]]

\* no request handled yet: the endpoint of the last request, its dag_id, the
\* calls of Scheduler.schedule_dag it made and its response
IdleApi == [pc |-> "idle", fn |-> "none", dag_id |-> "none", scheduled |-> <<>>,
            ret |-> [status |-> 0]]

\* schedule_dag(dag, run_id) not entered yet
InitScheduler(run_id) ==
    sched = [pc |-> "idle", i |-> 0, error |-> "none", run_id |-> run_id]

\* an empty store, no call made and the workers entering
\* Worker.run(loop_forever)
InitRun(loop) ==
    /\ dags = <<>>
    /\ available = TRUE
    /\ api = IdleApi
    /\ statuses = <<>>
    /\ queue = <<>>
    /\ wk = [w \in Workers |-> IdleWorker]
    /\ executions = <<>>
    /\ loop_forever = loop
    /\ cancel = IdleCancel
    /\ pushes = <<>>
    /\ memory = EmptyMemory
    /\ redis = EmptyRedis

\* Worker.run(): loop_forever is True by default
InitEmpty == InitRun(TRUE)

InitStores == InitEmpty /\ caller = NoCaller

InitPersistence == InitScheduler(FirstRunId) /\ InitStores

InitStore ==
    /\ call = NoCall
    /\ InitPersistence

Init == dag \in RunDags /\ InitStore

InitDag == dag = EmptyDag /\ InitStore

\* schedule_dag(dag, run_id) for every run id a caller can pass
InitRunIds ==
    /\ dag \in RunDags \cup {RunNamedDag}
    /\ call = NoCall
    /\ \E run_id \in RunIds : InitScheduler(run_id)
    /\ InitStores

(***************************************************************************)
(* persistence.py                                                          *)
(***************************************************************************)
\* save_task_status: self._statuses[task_run_id] = {"status": status, **meta}
save_task_status(store, key, status, meta) ==
    [k \in DOMAIN store \cup {key} |->
        IF k = key THEN meta @@ [status |-> status] ELSE store[k]]

\* get_task_status(key).get("status")
StatusOf(store, key) ==
    IF key \in DOMAIN store THEN store[key].status ELSE "absent"

\* push_task_queue / pop_task_queue: FIFO
push_task_queue(q, item) == Append(q, item)

\* DAG.model_dump_json() and DAG.model_validate_json(): the document as a
\* JSON string, and the document parsed back from it
model_dump_json(d) == [json |-> d]
model_validate_json(dag_json) == dag_json.json

\* save_dag: self._dags[dag_id] = dag_json
save_dag(store, dag_id, dag_json) ==
    [k \in DOMAIN store \cup {dag_id} |-> IF k = dag_id THEN dag_json ELSE store[k]]

\* load_dag: self._dags.get(dag_id), <<>> for None
load_dag(store, dag_id) == IF dag_id \in DOMAIN store THEN <<store[dag_id]>> ELSE <<>>

\* the number of calls counted for key, and one more call counted
Count(bag, key) == IF key \in DOMAIN bag THEN bag[key] ELSE 0

Counted(bag, key) ==
    [k \in DOMAIN bag \cup {key} |-> IF k = key THEN Count(bag, key) + 1 ELSE bag[k]]

(***************************************************************************)
(* dag.py called directly                                                  *)
(***************************************************************************)
\* the caller builds the document: one more task, while there are at most
\* MaxTasks of them
AddTask ==
    /\ call = NoCall /\ sched.pc = "idle"
    /\ Len(dag.ids) < MaxTasks
    /\ dag' = WithTask(dag)
    /\ UNCHANGED <<call, sched, dags, statuses, queue, wk, executions, loop_forever, available, api, cancel, pushes, backendVars>>

\* the caller builds the document: one more dependency of task t, an existing
\* task other than t or an id that is no task, at most MaxEdges in all
AddDependency(t, dep) ==
    /\ call = NoCall /\ sched.pc = "idle"
    /\ EdgeCount(dag, 1) < MaxEdges
    /\ t \in TaskIds(dag) /\ dep # t
    /\ dag' = WithDependency(dag, t, dep)
    /\ UNCHANGED <<call, sched, dags, statuses, queue, wk, executions, loop_forever, available, api, cancel, pushes, backendVars>>

CallValidate ==
    /\ call = NoCall /\ sched.pc = "idle"
    /\ call' = [fn |-> "validate", result |-> validate(dag)]
    /\ UNCHANGED <<dag, sched, dags, statuses, queue, wk, executions, loop_forever, available, api, cancel, pushes, backendVars>>

CallTopologicalSort ==
    /\ call = NoCall /\ sched.pc = "idle"
    /\ call' = [fn |-> "topological_sort", result |-> topological_sort(dag)]
    /\ UNCHANGED <<dag, sched, dags, statuses, queue, wk, executions, loop_forever, available, api, cancel, pushes, backendVars>>

(***************************************************************************)
(* scheduler.py: Scheduler.schedule_dag(dag, RunId)                        *)
(***************************************************************************)
QueuedMeta(payload) ==
    [task_id |-> payload.task_id, run_id |-> payload.run_id,
     task_run_id |-> payload.task_run_id]

\* DagsAfterValidate with save_dag ahead of dag.validate()
DagsSavedFirst(result, store, d) == save_dag(store, d.id, model_dump_json(d))

\* schedule_dag: dag.validate() raises ahead of self.persistence.save_dag
DagsAfterValidate(result, store, d) ==
    IF result # "ok" THEN store ELSE save_dag(store, d.id, model_dump_json(d))

\* dag.validate(); build_run_tasks; self.persistence.save_dag
ScheduleValidate ==
    /\ sched.pc = "idle" /\ call = NoCall
    /\ sched' = IF validate(dag) # "ok"
                THEN [sched EXCEPT !.pc = "raised", !.error = validate(dag)]
                ELSE [sched EXCEPT !.pc = "persist_run"]
    /\ dags' = DagsAfterValidate(validate(dag), dags, dag)
    /\ UNCHANGED <<dag, call, statuses, queue, wk, executions, loop_forever, available, api, cancel, pushes, backendVars>>

\* _persist_run: save_task_status("run:{run_id}", "scheduled", run_metadata)
RunMetadata(d, run_id) ==
    [dag_id |-> d.id, run_id |-> run_id, task_count |-> Len(d.ids),
     task_ids |-> d.ids]

SchedulePersistRun ==
    /\ sched.pc = "persist_run"
    /\ statuses' = save_task_status(statuses, RunKey(RunId), "scheduled",
                                    RunMetadata(dag, RunId))
    /\ sched' = IF Runnable(dag, RunId) = <<>>
                THEN [sched EXCEPT !.pc = "done"]
                ELSE [sched EXCEPT !.pc = "queued_attempt", !.i = 1]
    /\ UNCHANGED <<dag, call, dags, queue, wk, executions, loop_forever, available, api, cancel, pushes, backendVars>>

\* for task in runnable: save_task_status(task["task_run_id"], "queued", meta)
ScheduleQueuedAttempt ==
    /\ sched.pc = "queued_attempt"
    /\ LET task == Runnable(dag, RunId)[sched.i]
       IN  statuses' = save_task_status(statuses, task.task_run_id, "queued",
                                        QueuedMeta(task))
    /\ sched' = [sched EXCEPT !.pc = "queued_canonical"]
    /\ UNCHANGED <<dag, call, dags, queue, wk, executions, loop_forever, available, api, cancel, pushes, backendVars>>

\* save_task_status(f"{run_id}:{task['task_id']}", "queued", meta)
ScheduleQueuedCanonical ==
    /\ sched.pc = "queued_canonical"
    /\ LET task == Runnable(dag, RunId)[sched.i]
       IN  statuses' = save_task_status(statuses, CanonicalKey(RunId, task.task_id),
                                        "queued", QueuedMeta(task))
    /\ sched' = [sched EXCEPT !.pc = "push"]
    /\ UNCHANGED <<dag, call, dags, queue, wk, executions, loop_forever, available, api, cancel, pushes, backendVars>>

\* self.persistence.push_task_queue(task)
SchedulePush ==
    /\ sched.pc = "push"
    /\ queue' = push_task_queue(queue, Runnable(dag, RunId)[sched.i])
    /\ pushes' = Counted(pushes, Runnable(dag, RunId)[sched.i].task_run_id)
    /\ sched' = IF sched.i = Len(Runnable(dag, RunId))
                THEN [sched EXCEPT !.pc = "done"]
                ELSE [sched EXCEPT !.pc = "queued_attempt", !.i = @ + 1]
    /\ UNCHANGED <<dag, call, dags, statuses, wk, executions, loop_forever, available, api, cancel, backendVars>>

schedule_dag ==
    \/ ScheduleValidate
    \/ SchedulePersistRun
    \/ ScheduleQueuedAttempt
    \/ ScheduleQueuedCanonical
    \/ SchedulePush


(***************************************************************************)
(* executor.py: what execute_task can return                               *)
(***************************************************************************)
ExecutorResults ==
    {[status |-> "success", exit_code |-> "0", stderr |-> ""],
     [status |-> "failed", exit_code |-> "1", stderr |-> "error"],
     [status |-> "timeout", exit_code |-> "None",
      stderr |-> "Command execution exceeded timeout"]}

\* a payload value that `if not value` takes for missing: None or ""
Truthy(value) == value \notin {"None", ""}

\* what a call of execute_task meets: the payload's command and callable, and
\* what the process it starts does (its exit code and stderr, whether the
\* timeout elapses first, what the callable's process does)
ExitCodes == (-1)..MaxExitCode
CallableOutcomes == {"returns", "raises", "import_fails", "no_output"}

ExecInputs ==
    [command : {"None", "", "exit"}, callable : {"None", "", "pkg.mod:fn"},
     returncode : ExitCodes, stderr : {"", "error"}, timed_out : BOOLEAN,
     outcome : CallableOutcomes]

\* a returned result dict (stdout and duration left out); exit_code is <<>>
\* for None
Returned(status, stderr, exit_code) ==
    [raised |-> "none", status |-> status, stderr |-> stderr, exit_code |-> exit_code]

Raised(error) == [raised |-> error]

\* CommandStatus with `>=` for `==`
CommandStatusNonNegative(returncode) ==
    IF returncode >= 0 THEN "success" ELSE "failed"

\* status = "success" if completed.returncode == 0 else "failed"
CommandStatus(returncode) == IF returncode = 0 THEN "success" ELSE "failed"

\* _run_callable_worker: what the callable's process puts on result_queue,
\* <<>> when it dies without putting anything
CallableResult(in) ==
    CASE in.outcome = "returns" -> <<[exit_code |-> 0, stderr |-> ""]>>
      [] in.outcome \in {"raises", "import_fails"} ->
            <<[exit_code |-> 1, stderr |-> "traceback"]>>
      [] OTHER -> <<>>

execute_task(in) ==
    IF ~Truthy(in.command) /\ ~Truthy(in.callable)
    THEN Raised("ValueError")
    ELSE IF Truthy(in.command)
    THEN IF in.timed_out
         THEN Returned("timeout", "Command execution exceeded timeout", <<>>)
         ELSE Returned(CommandStatus(in.returncode), in.stderr, <<in.returncode>>)
    ELSE IF in.timed_out
    THEN Returned("timeout", "Callable execution exceeded timeout", <<>>)
    ELSE LET result_queue == CallableResult(in)
         IN  IF result_queue # <<>>
             THEN Returned(CommandStatus(result_queue[1].exit_code),
                           result_queue[1].stderr, <<result_queue[1].exit_code>>)
             ELSE Returned("failed", "Callable produced no output", <<1>>)

\* a direct call of execute_task
CallExecuteTask ==
    /\ call.fn = "input"
    /\ call' = [fn |-> "execute_task", input |-> call.input,
                result |-> execute_task(call.input)]
    /\ UNCHANGED <<dag, sched, dags, statuses, queue, wk, executions, loop_forever, available, api, cancel, pushes, backendVars>>

(***************************************************************************)
(* executor.py: _call_with_metadata(func, metadata) inside the callable's  *)
(* process.  A call of func either fails to bind its arguments (TypeError  *)
(* before the body starts) or starts the body; the body of a coroutine     *)
(* function starts when _invoke_async awaits the coroutine the call made.  *)
(***************************************************************************)
\* what func accepts: keyword arguments, one positional argument, both (*args,
\* **kwargs) or no argument at all
CallableSignatures == {"keywords", "positional", "both", "none"}

\* what the body of func does once it runs
CallableBodies == {"returns", "TypeError", "ValueError"}

\* a metadata dict with an entry
SomeMetadata == <<"value">>

CallableInputs ==
    [metadata : {EmptyMetadata, SomeMetadata}, signature : CallableSignatures,
     body : CallableBodies, is_async : BOOLEAN]

\* the arguments bind to the parameters of func
Binds(signature, args) ==
    CASE args = "keywords" -> signature \in {"keywords", "both"}
      [] args = "positional" -> signature \in {"positional", "both"}
      [] OTHER -> signature \in {"none", "both"}

\* one call of func: whether the arguments bound, whether the body started
\* within the call, and what the call returned or raised
Invoke(in, args) ==
    LET bound == Binds(in.signature, args)
    IN  [args |-> args, bound |-> bound, started |-> bound /\ ~in.is_async,
         outcome |-> IF ~bound THEN "TypeError"
                     ELSE IF in.is_async THEN "coroutine" ELSE in.body]

\* after a call outside the try block: the coroutine is awaited, everything
\* else is the result of _call_with_metadata
AfterInvoke(c, inv) ==
    [c EXCEPT !.invocations = Append(@, inv),
              !.pc = IF inv.outcome = "coroutine" THEN "await" ELSE "done",
              !.result = inv.outcome]

\* if metadata: try: return func(**metadata); except TypeError: ...
CallKeywords ==
    /\ call.fn = "_call_with_metadata" /\ call.pc = "start"
    /\ call.input.metadata # EmptyMetadata
    /\ LET inv == Invoke(call.input, "keywords")
       IN  call' = IF inv.outcome = "TypeError"
                   THEN [call EXCEPT !.invocations = Append(@, inv), !.pc = "except"]
                   ELSE AfterInvoke(call, inv)
    /\ UNCHANGED <<dag, sched, dags, statuses, queue, wk, executions, loop_forever, available, api, cancel, pushes, backendVars>>

\* except TypeError: return func(metadata)
CallPositional ==
    /\ call.fn = "_call_with_metadata" /\ call.pc = "except"
    /\ call' = AfterInvoke(call, Invoke(call.input, "positional"))
    /\ UNCHANGED <<dag, sched, dags, statuses, queue, wk, executions, loop_forever, available, api, cancel, pushes, backendVars>>

\* return func()
CallNoArguments ==
    /\ call.fn = "_call_with_metadata" /\ call.pc = "start"
    /\ call.input.metadata = EmptyMetadata
    /\ call' = AfterInvoke(call, Invoke(call.input, "none"))
    /\ UNCHANGED <<dag, sched, dags, statuses, queue, wk, executions, loop_forever, available, api, cancel, pushes, backendVars>>

\* _invoke_async: return await _call_with_metadata(func, metadata)
AwaitCoroutine ==
    /\ call.fn = "_call_with_metadata" /\ call.pc = "await"
    /\ call' = [call EXCEPT !.invocations[Len(call.invocations)].started = TRUE,
                            !.pc = "done",
                            !.result = call.input.body]
    /\ UNCHANGED <<dag, sched, dags, statuses, queue, wk, executions, loop_forever, available, api, cancel, pushes, backendVars>>

(***************************************************************************)
(* worker.py: Worker.run and Worker._process_task                          *)
(***************************************************************************)
\* _record_status: enriched_meta = {**meta, "task_id": ..., "run_id": ...}
EnrichedMeta(payload, meta) ==
    [task_id |-> payload.task_id, run_id |-> payload.run_id] @@ meta

\* _build_child_payload: None when the blueprint has no entry for the child
HasChildPayload(parent, child_id) == child_id \in DOMAIN parent.dag_blueprint

\* _build_child_payload without child_payload["dag_blueprint"] = blueprint
_build_child_payloadBare(parent, child_id) ==
    LET child_base == parent.dag_blueprint[child_id]
    IN  [dag_blueprint |-> <<>>] @@
        [child_base EXCEPT !.attempt = 0,
                           !.task_run_id = TaskRunId(child_base.run_id, child_id, 0)]

_build_child_payload(parent, child_id) ==
    LET child_base == parent.dag_blueprint[child_id]
    IN  [dag_blueprint |-> parent.dag_blueprint] @@
        [child_base EXCEPT !.attempt = 0,
                           !.task_run_id = TaskRunId(child_base.run_id, child_id, 0)]

ChildOf(rec) == _build_child_payload(rec.payload, rec.payload.downstream[rec.child])

\* _already_scheduled with `not in {"failed", "timeout"}`: a child without a
\* status passes for scheduled
_already_scheduledUnlessFailed(store, payload) ==
    StatusOf(store, CanonicalKey(payload.run_id, payload.task_id))
        \notin {"failed", "timeout"}

\* _already_scheduled: status in {"queued", "running", "success"}
_already_scheduled(store, payload) ==
    StatusOf(store, CanonicalKey(payload.run_id, payload.task_id))
        \in {"queued", "running", "success"}

\* DependencySatisfied with `not in {"success", "failed", "timeout"}`: a
\* dependency that has finished in any way is satisfied
DependencySatisfiedFinished(store, run_id, dep) ==
    StatusOf(store, CanonicalKey(run_id, dep)) \in {"success", "failed", "timeout"}

\* DependencySatisfied comparing with a status that is never written
DependencySatisfiedCompleted(store, run_id, dep) ==
    StatusOf(store, CanonicalKey(run_id, dep)) = "completed"

\* _dependencies_satisfied, one iteration: status.get("status") != "success"
DependencySatisfied(store, run_id, dep) ==
    StatusOf(store, CanonicalKey(run_id, dep)) = "success"

\* ShouldRetry with `<=` for `<`: one attempt more than retries allows
ShouldRetryInclusive(attempt, retries) == attempt <= retries

\* _process_task: if attempt < retries
ShouldRetry(attempt, retries) == attempt < retries

\* _process_task: next_attempt = attempt + 1
NextAttempt(attempt) == attempt + 1

\* utils.retry_backoff: base_delay, 2.0 by default
BaseDelay == 2

\* retry_backoff growing by base_delay for every attempt
retry_backoffLinear(attempt) ==
    IF attempt < 0 THEN "ValueError" ELSE BaseDelay * (attempt + 1)

\* utils.retry_backoff(attempt): base_delay * (2**attempt), in seconds
retry_backoff(attempt) ==
    IF attempt < 0 THEN "ValueError" ELSE BaseDelay * (2 ^ attempt)

\* RetryTaskRunId without the new attempt number: the retry keeps the id
RetryTaskRunIdSame(p, next_attempt) == p.task_run_id

\* _process_task: payload["task_run_id"] = f"{run_id}:{task_id}:{next_attempt}"
RetryTaskRunId(p, next_attempt) == TaskRunId(p.run_id, p.task_id, next_attempt)

\* back to the head of the loop of Worker.run
Finished(rec) == IdleWorker

\* _schedule_downstream: the loop head for the children from index c on; a
\* child without payload is skipped, a child without dependencies passes
\* _dependencies_satisfied without a read
RECURSIVE EnterChild(_, _)
EnterChild(rec, c) ==
    IF c > Len(rec.payload.downstream) THEN Finished(rec)
    ELSE IF ~HasChildPayload(rec.payload, rec.payload.downstream[c])
    THEN EnterChild(rec, c + 1)
    ELSE LET child == _build_child_payload(rec.payload, rec.payload.downstream[c])
         IN  IF child.dependencies = <<>>
             THEN [rec EXCEPT !.pc = "already_scheduled", !.child = c, !.dep = 0]
             ELSE [rec EXCEPT !.pc = "dependencies_satisfied", !.child = c, !.dep = 1]

\* AfterResult without the `return` that follows _schedule_downstream: a
\* successful attempt with retries left is queued again
AfterResultNoReturn(rec) ==
    IF ShouldRetry(rec.payload.attempt, rec.payload.retries)
    THEN [rec EXCEPT !.pc = "retry_sleep"]
    ELSE IF rec.result.status = "success" THEN EnterChild(rec, 1)
    ELSE Finished(rec)

\* _process_task after the result is recorded
AfterResult(rec) ==
    IF rec.result.status = "success" THEN EnterChild(rec, 1)
    ELSE IF ShouldRetry(rec.payload.attempt, rec.payload.retries)
    THEN [rec EXCEPT !.pc = "retry_sleep"]
    ELSE Finished(rec)

\* payload = self.persistence.pop_task_queue(timeout=5), an item arrived
Pop(w) ==
    /\ wk[w].pc = "pop" /\ queue # <<>>
    /\ wk' = [wk EXCEPT ![w] = [@ EXCEPT !.pc = "running_attempt",
                                         !.payload = Head(queue)]]
    /\ queue' = Tail(queue)
    /\ UNCHANGED <<dag, call, sched, dags, statuses, executions, loop_forever, available, api, cancel, pushes, backendVars>>

\* PopTimeout without the test of loop_forever: the loop always continues
PopTimeoutContinue(w) ==
    /\ wk[w].pc = "pop" /\ queue = <<>>
    /\ UNCHANGED vars

\* pop_task_queue timed out: continue, or break if not loop_forever
PopTimeout(w) ==
    /\ wk[w].pc = "pop" /\ queue = <<>>
    /\ wk' = IF loop_forever THEN wk ELSE [wk EXCEPT ![w].pc = "stopped"]
    /\ UNCHANGED <<dag, call, sched, dags, statuses, queue, executions, loop_forever, available, api, cancel, pushes, backendVars>>

\* _record_status(task_run_id, payload, "running", {}), first write
RecordRunningAttempt(w) ==
    /\ wk[w].pc = "running_attempt"
    /\ statuses' = save_task_status(statuses, wk[w].payload.task_run_id, "running",
                                    EnrichedMeta(wk[w].payload, <<>>))
    /\ wk' = [wk EXCEPT ![w].pc = "running_canonical"]
    /\ UNCHANGED <<dag, call, sched, dags, queue, executions, loop_forever, available, api, cancel, pushes, backendVars>>

\* _record_status(task_run_id, payload, "running", {}), canonical write
RecordRunningCanonical(w) ==
    /\ wk[w].pc = "running_canonical"
    /\ statuses' = save_task_status(statuses,
                        CanonicalKey(wk[w].payload.run_id, wk[w].payload.task_id),
                        "running", EnrichedMeta(wk[w].payload, <<>>))
    /\ wk' = [wk EXCEPT ![w].pc = "execute"]
    /\ UNCHANGED <<dag, call, sched, dags, queue, executions, loop_forever, available, api, cancel, pushes, backendVars>>

\* result = self.executor(payload, timeout)
Execute(w, result) ==
    /\ wk[w].pc = "execute"
    /\ wk' = [wk EXCEPT ![w] = [@ EXCEPT !.pc = "result_attempt", !.result = result]]
    /\ executions' = Counted(executions, wk[w].payload.task_run_id)
    /\ UNCHANGED <<dag, call, sched, dags, statuses, queue, loop_forever, available, api, cancel, pushes, backendVars>>

\* _record_status(task_run_id, payload, result["status"], result), first write
RecordResultAttempt(w) ==
    /\ wk[w].pc = "result_attempt"
    /\ statuses' = save_task_status(statuses, wk[w].payload.task_run_id,
                        wk[w].result.status, EnrichedMeta(wk[w].payload, wk[w].result))
    /\ wk' = [wk EXCEPT ![w].pc = "result_canonical"]
    /\ UNCHANGED <<dag, call, sched, dags, queue, executions, loop_forever, available, api, cancel, pushes, backendVars>>

\* _record_status(...), canonical write; then the branch on result["status"]
RecordResultCanonical(w) ==
    /\ wk[w].pc = "result_canonical"
    /\ statuses' = save_task_status(statuses,
                        CanonicalKey(wk[w].payload.run_id, wk[w].payload.task_id),
                        wk[w].result.status, EnrichedMeta(wk[w].payload, wk[w].result))
    /\ wk' = [wk EXCEPT ![w] = AfterResult(@)]
    /\ UNCHANGED <<dag, call, sched, dags, queue, executions, loop_forever, available, api, cancel, pushes, backendVars>>

\* delay = retry_backoff(attempt); time.sleep(delay);
\* payload["attempt"] = next_attempt; payload["task_run_id"] = ...
RetrySleep(w) ==
    /\ wk[w].pc = "retry_sleep"
    /\ LET p == wk[w].payload
           next_attempt == NextAttempt(p.attempt)
       IN  wk' = [wk EXCEPT ![w] = [@ EXCEPT
                    !.pc = "retry_queued_attempt",
                    !.delay = retry_backoff(p.attempt),
                    !.payload = [p EXCEPT !.attempt = next_attempt,
                        !.task_run_id = RetryTaskRunId(p, next_attempt)]]]
    /\ UNCHANGED <<dag, call, sched, dags, statuses, queue, executions, loop_forever, available, api, cancel, pushes, backendVars>>

\* _mark_queued(payload), first write
RetryQueuedAttempt(w) ==
    /\ wk[w].pc = "retry_queued_attempt"
    /\ statuses' = save_task_status(statuses, wk[w].payload.task_run_id, "queued",
                                    QueuedMeta(wk[w].payload))
    /\ wk' = [wk EXCEPT ![w].pc = "retry_queued_canonical"]
    /\ UNCHANGED <<dag, call, sched, dags, queue, executions, loop_forever, available, api, cancel, pushes, backendVars>>

\* _mark_queued(payload), canonical write
RetryQueuedCanonical(w) ==
    /\ wk[w].pc = "retry_queued_canonical"
    /\ statuses' = save_task_status(statuses,
                        CanonicalKey(wk[w].payload.run_id, wk[w].payload.task_id),
                        "queued", QueuedMeta(wk[w].payload))
    /\ wk' = [wk EXCEPT ![w].pc = "retry_push"]
    /\ UNCHANGED <<dag, call, sched, dags, queue, executions, loop_forever, available, api, cancel, pushes, backendVars>>

\* self.persistence.push_task_queue(payload)
RetryPush(w) ==
    /\ wk[w].pc = "retry_push"
    /\ queue' = push_task_queue(queue, wk[w].payload)
    /\ pushes' = Counted(pushes, wk[w].payload.task_run_id)
    /\ wk' = [wk EXCEPT ![w] = Finished(@)]
    /\ UNCHANGED <<dag, call, sched, dags, statuses, executions, loop_forever, available, api, cancel, backendVars>>


\* _dependencies_satisfied(run_id, child_payload): one get_task_status
CheckDependency(w) ==
    /\ wk[w].pc = "dependencies_satisfied"
    /\ LET rec == wk[w]
           child == ChildOf(rec)
       IN  wk' = [wk EXCEPT ![w] =
                IF ~DependencySatisfied(statuses, rec.payload.run_id,
                                        child.dependencies[rec.dep])
                THEN EnterChild(rec, rec.child + 1)
                ELSE IF rec.dep = Len(child.dependencies)
                THEN [rec EXCEPT !.pc = "already_scheduled", !.dep = 0]
                ELSE [rec EXCEPT !.dep = @ + 1]]
    /\ UNCHANGED <<dag, call, sched, dags, statuses, queue, executions, loop_forever, available, api, cancel, pushes, backendVars>>

\* if self._already_scheduled(child_payload): continue
CheckAlreadyScheduled(w) ==
    /\ wk[w].pc = "already_scheduled"
    /\ wk' = [wk EXCEPT ![w] =
                IF _already_scheduled(statuses, ChildOf(wk[w]))
                THEN EnterChild(wk[w], wk[w].child + 1)
                ELSE [wk[w] EXCEPT !.pc = "child_queued_attempt"]]
    /\ UNCHANGED <<dag, call, sched, dags, statuses, queue, executions, loop_forever, available, api, cancel, pushes, backendVars>>

\* _mark_queued(child_payload), first write
ChildQueuedAttempt(w) ==
    /\ wk[w].pc = "child_queued_attempt"
    /\ statuses' = save_task_status(statuses, ChildOf(wk[w]).task_run_id, "queued",
                                    QueuedMeta(ChildOf(wk[w])))
    /\ wk' = [wk EXCEPT ![w].pc = "child_queued_canonical"]
    /\ UNCHANGED <<dag, call, sched, dags, queue, executions, loop_forever, available, api, cancel, pushes, backendVars>>

\* _mark_queued(child_payload), canonical write
ChildQueuedCanonical(w) ==
    /\ wk[w].pc = "child_queued_canonical"
    /\ statuses' = save_task_status(statuses,
                        CanonicalKey(ChildOf(wk[w]).run_id, ChildOf(wk[w]).task_id),
                        "queued", QueuedMeta(ChildOf(wk[w])))
    /\ wk' = [wk EXCEPT ![w].pc = "child_push"]
    /\ UNCHANGED <<dag, call, sched, dags, queue, executions, loop_forever, available, api, cancel, pushes, backendVars>>

\* self.persistence.push_task_queue(child_payload)
ChildPush(w) ==
    /\ wk[w].pc = "child_push"
    /\ queue' = push_task_queue(queue, ChildOf(wk[w]))
    /\ pushes' = Counted(pushes, ChildOf(wk[w]).task_run_id)
    /\ wk' = [wk EXCEPT ![w] = EnterChild(@, @.child + 1)]
    /\ UNCHANGED <<dag, call, sched, dags, statuses, executions, loop_forever, available, api, cancel, backendVars>>

\* the payload with which attempt k of task t was processed
PayloadOf(t, k) ==
    LET tasks == PlannedTasks(dag, RunId)
        p == tasks[CHOOSE i \in DOMAIN tasks : tasks[i].task_id = t]
    IN  [p EXCEPT !.attempt = k, !.task_run_id = TaskRunId(RunId, t, k)]

\* self._schedule_downstream(payload) called once more by worker w, with the
\* payload of a parent whose attempt k has succeeded
CallScheduleDownstream(w, t, k) ==
    /\ wk[w].pc = "pop"
    /\ StatusOf(statuses, TaskRunId(RunId, t, k)) = "success"
    /\ \A id \in DOMAIN pushes : pushes[id] <= MaxRepeatedPushes
    /\ wk' = [wk EXCEPT ![w] = EnterChild([IdleWorker EXCEPT !.payload = PayloadOf(t, k)], 1)]
    /\ UNCHANGED <<dag, call, sched, dags, statuses, queue, executions, loop_forever, available, api, cancel, pushes, backendVars>>

\* one step of worker w running Worker.run
WorkerStep(w) ==
    \/ Pop(w)
    \/ PopTimeout(w)
    \/ RecordRunningAttempt(w)
    \/ RecordRunningCanonical(w)
    \/ \E result \in ExecutorResults : Execute(w, result)
    \/ RecordResultAttempt(w)
    \/ RecordResultCanonical(w)
    \/ RetrySleep(w)
    \/ RetryQueuedAttempt(w)
    \/ RetryQueuedCanonical(w)
    \/ RetryPush(w)
    \/ CheckDependency(w)
    \/ CheckAlreadyScheduled(w)
    \/ ChildQueuedAttempt(w)
    \/ ChildQueuedCanonical(w)
    \/ ChildPush(w)

(***************************************************************************)
(* The Redis server goes away and comes back.  RedisPersistence.client     *)
(* pings before every command; when the ping fails _connect tries three    *)
(* times and raises ConnectionError, and a command that fails raises       *)
(* redis.RedisError.  Worker.run catches KeyboardInterrupt alone and       *)
(* schedule_dag catches nothing.                                           *)
(***************************************************************************)
BackendDown ==
    /\ available
    /\ available' = FALSE
    /\ UNCHANGED <<dag, call, sched, dags, statuses, queue, wk, executions, loop_forever, api, cancel, pushes, backendVars>>

BackendUp ==
    /\ ~available
    /\ available' = TRUE
    /\ UNCHANGED <<dag, call, sched, dags, statuses, queue, wk, executions, loop_forever, api, cancel, pushes, backendVars>>

\* the worker is at a call of self.persistence
UsesPersistence(rec) == rec.pc \notin {"execute", "retry_sleep", "stopped", "raised"}

\* a persistence call of worker w raises: the exception leaves _process_task
\* and the loop of Worker.run, and Worker.run ends with it
WorkerRaises(w) ==
    /\ ~available /\ UsesPersistence(wk[w])
    /\ wk' = [wk EXCEPT ![w].pc = "raised"]
    /\ UNCHANGED <<dag, call, sched, dags, statuses, queue, executions, loop_forever, available, api, cancel, pushes, backendVars>>

\* a persistence call of schedule_dag raises: schedule_dag ends with it
SchedulerRaises ==
    /\ ~available
    /\ \/ sched.pc \in {"persist_run", "queued_attempt", "queued_canonical", "push"}
       \/ sched.pc = "idle" /\ call = NoCall /\ validate(dag) = "ok"
    /\ sched' = [sched EXCEPT !.pc = "raised", !.error = "ConnectionError"]
    /\ UNCHANGED <<dag, call, dags, statuses, queue, wk, executions, loop_forever, available, api, cancel, pushes, backendVars>>

(***************************************************************************)
(* persistence.py: RedisPersistence.__init__ calls _connect, and the       *)
(* property client, read by every command, pings the server and calls      *)
(* _connect again when the ping fails.  call holds the position in         *)
(* _connect, the attempts made and the sleeps taken by the last call of    *)
(* _connect a command made, and the number of commands issued.             *)
(***************************************************************************)
\* for attempt in range(3)
ConnectAttempts == 3

\* time.sleep(min(retry_backoff(attempt), 10))
MaxConnectDelay == 10

min(a, b) == IF a <= b THEN a ELSE b

\* the argument of time.sleep after failed attempt number attempt
ConnectDelay(attempt) == min(retry_backoff(attempt), MaxConnectDelay)

\* _connect entered: attempt 0 is next
EnterConnect(c) ==
    [c EXCEPT !.pc = "connect", !.attempt = 0, !.tried = 0, !.slept = <<>>]

\* client = redis.Redis.from_url(...); client.ping(); return client
ConnectAttempt ==
    /\ call.fn = "RedisPersistence" /\ call.pc = "connect"
    /\ call' = IF available
               THEN [call EXCEPT !.tried = @ + 1, !.pc = "ready", !.result = "client"]
               ELSE [call EXCEPT !.tried = @ + 1, !.pc = "sleep"]
    /\ UNCHANGED <<dag, sched, dags, statuses, queue, wk, executions, loop_forever, available, api, cancel, pushes, backendVars>>

\* except redis.RedisError: time.sleep(...); the next attempt, or after the
\* last one raise ConnectionError
ConnectSleep ==
    /\ call.fn = "RedisPersistence" /\ call.pc = "sleep"
    /\ call' = IF call.attempt + 1 < ConnectAttempts
               THEN [call EXCEPT !.slept = Append(@, ConnectDelay(call.attempt)),
                                 !.attempt = @ + 1, !.pc = "connect"]
               ELSE [call EXCEPT !.slept = Append(@, ConnectDelay(call.attempt)),
                                 !.pc = "raised", !.result = "ConnectionError"]
    /\ UNCHANGED <<dag, sched, dags, statuses, queue, wk, executions, loop_forever, available, api, cancel, pushes, backendVars>>

\* a command reads self.client: self._client.ping(), and _connect when the
\* ping fails; the object exists once __init__ has returned
ClientPing ==
    /\ call.fn = "RedisPersistence"
    /\ call.pc = "ready" \/ (call.pc = "raised" /\ call.commands > 0)
    /\ call.commands < MaxCommands
    /\ call' = IF available
               THEN [call EXCEPT !.commands = @ + 1, !.pc = "ready", !.result = "client",
                                 !.attempt = 0, !.tried = 0, !.slept = <<>>]
               ELSE EnterConnect([call EXCEPT !.commands = @ + 1])
    /\ UNCHANGED <<dag, sched, dags, statuses, queue, wk, executions, loop_forever, available, api, cancel, pushes, backendVars>>

(***************************************************************************)
(* api.py: cancel_run(RunId), one call.  get_task_status hands out a copy  *)
(* of the stored record, as RedisPersistence does; with InMemoryPersistence *)
(* the record is the stored dict itself (see the two backends below).      *)
(***************************************************************************)
\* get_task_status(key): the stored record, {} when the key is absent
get_task_status(store, key) == IF key \in DOMAIN store THEN store[key] ELSE <<>>

\* run_meta = get_task_status(f"run:{run_id}"); 404 if not run_meta
CancelGetRun ==
    /\ cancel.pc = "idle"
    /\ LET run_meta == get_task_status(statuses, RunKey(RunId))
       IN  cancel' = IF run_meta = <<>>
                     THEN [cancel EXCEPT !.pc = "not_found"]
                     ELSE [cancel EXCEPT !.pc = "save_run", !.run_meta = run_meta]
    /\ UNCHANGED <<dag, call, sched, dags, statuses, queue, wk, executions, loop_forever, available, api, pushes, backendVars>>

\* the loop `for task_id in task_ids` from index i on
CancelEnterTask(c, i) ==
    IF i > Len(c.run_meta.task_ids)
    THEN [c EXCEPT !.pc = "done", !.status = <<>>]
    ELSE [c EXCEPT !.pc = "get_task", !.i = i, !.status = <<>>]

\* run_meta["status"] = "cancelled"; save_task_status(f"run:{run_id}", "cancelled", run_meta)
CancelSaveRun ==
    /\ cancel.pc = "save_run"
    /\ LET run_meta == [cancel.run_meta EXCEPT !.status = "cancelled"]
       IN  /\ statuses' = save_task_status(statuses, RunKey(RunId), "cancelled", run_meta)
           /\ cancel' = CancelEnterTask([cancel EXCEPT !.run_meta = run_meta], 1)
    /\ UNCHANGED <<dag, call, sched, dags, queue, wk, executions, loop_forever, available, api, pushes, backendVars>>

\* Cancellable without the test of the status: every recorded task
CancellableAny(status) == status # <<>>

\* if status and status.get("status") in ["queued", "running"]
Cancellable(status) == status # <<>> /\ status.status \in {"queued", "running"}

\* status = get_task_status(f"{run_id}:{task_id}"); if ...
CancelGetTask ==
    /\ cancel.pc = "get_task"
    /\ LET task_id == cancel.run_meta.task_ids[cancel.i]
           status == get_task_status(statuses, CanonicalKey(RunId, task_id))
       IN  cancel' = IF Cancellable(status)
                     THEN [cancel EXCEPT !.pc = "save_task", !.status = status]
                     ELSE CancelEnterTask(cancel, cancel.i + 1)
    /\ UNCHANGED <<dag, call, sched, dags, statuses, queue, wk, executions, loop_forever, available, api, pushes, backendVars>>

\* status["status"] = "cancelled"; save_task_status(f"{run_id}:{task_id}", "cancelled", status)
CancelSaveTask ==
    /\ cancel.pc = "save_task"
    /\ LET task_id == cancel.run_meta.task_ids[cancel.i]
           status == [cancel.status EXCEPT !.status = "cancelled"]
       IN  statuses' = save_task_status(statuses, CanonicalKey(RunId, task_id),
                                        "cancelled", status)
    /\ cancel' = CancelEnterTask(cancel, cancel.i + 1)
    /\ UNCHANGED <<dag, call, sched, dags, queue, wk, executions, loop_forever, available, api, pushes, backendVars>>

cancel_run ==
    \/ CancelGetRun
    \/ CancelSaveRun
    \/ CancelGetTask
    \/ CancelSaveTask

(***************************************************************************)
(* api.py: register_dag and trigger_run, one request at a time.  The body  *)
(* of POST /dags is the document dag.                                      *)
(***************************************************************************)
\* the dag_id path parameters of POST /dags/{dag_id}/run
RequestedDagIds == {"demo", "other"}

\* the values str(uuid.uuid4()) can return
Uuids == {"uuid-1", "uuid-2"}

\* TriggerResponse that returns an empty run_id
TriggerResponseEmpty(run_id) == [status |-> 200, run_id |-> ""]

\* return {"run_id": run_id}
TriggerResponse(run_id) == [status |-> 200, run_id |-> run_id]

\* register_dag: dag.validate(); persistence.save_dag(dag.id, dag.model_dump_json())
RegisterDag ==
    /\ api.pc = "idle" /\ sched.pc = "idle" /\ call = NoCall
    /\ dags' = DagsAfterValidate(validate(dag), dags, dag)
    /\ api' = [pc |-> "idle", fn |-> "register_dag", dag_id |-> dag.id,
               scheduled |-> <<>>,
               ret |-> IF validate(dag) # "ok"
                       THEN [status |-> 500, error |-> validate(dag)]
                       ELSE [status |-> 200, dag_id |-> dag.id]]
    /\ UNCHANGED <<dag, call, sched, statuses, queue, wk, executions, loop_forever, available, cancel, pushes, backendVars>>

\* trigger_run: load_dag, 404 if not dag_json; DAG.model_validate_json;
\* run_id = str(uuid.uuid4()); Scheduler(persistence).schedule_dag(dag, run_id)
\* is entered
TriggerRun(dag_id, uuid) ==
    /\ api.pc = "idle" /\ call = NoCall
    /\ LET dag_json == load_dag(dags, dag_id)
       IN  IF dag_json = <<>>
           THEN /\ api' = [pc |-> "idle", fn |-> "trigger_run", dag_id |-> dag_id,
                           scheduled |-> <<>>, ret |-> [status |-> 404]]
                /\ UNCHANGED <<dag, sched>>
           ELSE /\ sched.pc = "idle"
                /\ dag' = model_validate_json(dag_json[1])
                /\ sched' = [sched EXCEPT !.run_id = uuid]
                /\ api' = [pc |-> "schedule_dag", fn |-> "trigger_run",
                           dag_id |-> dag_id,
                           scheduled |-> <<[dag_id |-> model_validate_json(dag_json[1]).id,
                                            run_id |-> uuid]>>,
                           ret |-> [status |-> 0]]
    /\ UNCHANGED <<call, dags, statuses, queue, wk, executions, loop_forever, available, cancel, pushes, backendVars>>

\* schedule_dag has returned or raised: return {"run_id": run_id}, or the
\* error response
TriggerReturn ==
    /\ api.pc = "schedule_dag" /\ sched.pc \in {"done", "raised"}
    /\ api' = [api EXCEPT !.pc = "idle",
                          !.ret = IF sched.pc = "raised"
                                  THEN [status |-> 500, error |-> sched.error]
                                  ELSE TriggerResponse(RunId)]
    /\ UNCHANGED <<dag, call, sched, dags, statuses, queue, wk, executions, loop_forever, available, cancel, pushes, backendVars>>

(***************************************************************************)
(* persistence.py: InMemoryPersistence and RedisPersistence driven by the  *)
(* same calls.  The in-memory backend keeps the dicts it is given and      *)
(* hands out the dicts it keeps; the Redis backend keeps json.dumps of     *)
(* them and hands out json.loads.  Strings, integers, None, lists of them  *)
(* and dicts with string keys are written as JSON strings, numbers, null,  *)
(* arrays and objects and read back as what they were.  The values of      *)
(* Task.metadata are free (Dict[str, Any]): a value is [py, items], py its *)
(* Python type and items its elements (the code points of a str, the one   *)
(* number of an int); json.dumps writes a list and a tuple as an array,    *)
(* json.loads reads an array as a list.                                    *)
(***************************************************************************)
\* json.dumps of a metadata value: the JSON type it is written as
JsonValue(v) ==
    [js |-> CASE v.py \in {"list", "tuple"} -> "array"
              [] v.py = "int" -> "number"
              [] v.py = "str" -> "string"
              [] OTHER -> "null",
     items |-> v.items]

\* json.loads of a JSON value: the Python type it is read as
PyValue(j) ==
    [py |-> CASE j.js = "array" -> "list"
              [] j.js = "number" -> "int"
              [] j.js = "string" -> "str"
              [] OTHER -> "None",
     items |-> j.items]

\* json.dumps(d) of a payload or status dict d, its nested dicts included
RECURSIVE JsonOf(_)
JsonOf(d) ==
    [k \in DOMAIN d |->
        IF k = "metadata" THEN [m \in DOMAIN d[k] |-> JsonValue(d[k][m])]
        ELSE IF k = "dag_blueprint" THEN [t \in DOMAIN d[k] |-> JsonOf(d[k][t])]
        ELSE d[k]]

\* json.loads of a JSON object
RECURSIVE PyOf(_)
PyOf(j) ==
    [k \in DOMAIN j |->
        IF k = "metadata" THEN [m \in DOMAIN j[k] |-> PyValue(j[k][m])]
        ELSE IF k = "dag_blueprint" THEN [t \in DOMAIN j[k] |-> PyOf(j[k][t])]
        ELSE j[k]]

json_dumps(d) == [json |-> JsonOf(d)]
json_loads(text) == PyOf(text.json)

\* values a Task.metadata entry can hold: "x", 7, None, [1, 2], (1, 2)
MetadataValues ==
    {[py |-> "str", items |-> <<120>>], [py |-> "int", items |-> <<7>>],
     [py |-> "None", items |-> <<>>], [py |-> "list", items |-> <<1, 2>>],
     [py |-> "tuple", items |-> <<1, 2>>]}

\* Task(id="a", ..., metadata={"k": value}) in a -> b -> c
MetadataDags ==
    {[LinearDag EXCEPT !.metadata["a"] = [k |-> v]] : v \in MetadataValues}

\* the payloads schedule_dag and the workers push in a run of d: the roots,
\* the children built by _build_child_payload and the retries
ProducedPayloads(d, run_id) ==
    LET planned == PlannedTasks(d, run_id)
        roots == Range(Runnable(d, run_id))
        children == UNION {{_build_child_payload(planned[i], planned[i].downstream[j]) :
                              j \in DOMAIN planned[i].downstream} : i \in DOMAIN planned}
        first == roots \cup children
        again == {[q EXCEPT !.attempt = NextAttempt(q.attempt),
                            !.task_run_id = RetryTaskRunId(q, NextAttempt(q.attempt))] :
                     q \in {r \in first : ShouldRetry(r.attempt, r.retries)}}
    IN  first \cup again

\* the caller of the two backends holds payloads of a run of dag
InitRoundTrip ==
    /\ dag \in MetadataDags
    /\ call = NoCall
    /\ InitScheduler(FirstRunId)
    /\ InitEmpty
    /\ \E objs \in [Objects -> ProducedPayloads(dag, FirstRunId)] :
          caller = [NoCaller EXCEPT !.objs = objs]

StatusKeys == {CanonicalKey(RunId, "a")}
DagIds == {"demo"}
\* dag.model_dump_json(), the only argument save_dag is called with: never empty
DagJsons == {"{\"id\": \"demo\"}", "{\"id\": \"demo\", \"name\": \"Demo\"}"}

\* client.lpush(queue_key, value)
lpush(list, value) == <<value>> \o list

\* brpop_value taking the left end of the list
blpop_value(list) == Head(list)

\* client.brpop(queue_key): the value at the right end of the list
brpop_value(list) == list[Len(list)]

\* client.brpop(queue_key): the list without its right end
brpop_rest(list) == SubSeq(list, 1, Len(list) - 1)

\* RedisPersistence.load_dag: str(value) if value else None
RedisLoadDag(store, dag_id) ==
    IF dag_id \in DOMAIN store /\ store[dag_id] # "" THEN Some(store[dag_id]) ELSE None

\* InMemoryPersistence.load_dag: self._dags.get(dag_id)
MemoryLoadDag(store, dag_id) ==
    IF dag_id \in DOMAIN store THEN Some(store[dag_id]) ELSE None

\* RedisPersistence.get_task_status: json.loads(payload) if payload else {}
RedisGetTaskStatus(store, key) ==
    IF key \in DOMAIN store THEN json_loads(store[key]) ELSE <<>>

Returns(c, fn, m, r) == [c EXCEPT !.fn = fn, !.ret = [memory |-> m, redis |-> r]]

\* push_task_queue(item) with item one of the caller's dicts: _queue.put_nowait
\* keeps the dict, lpush keeps json.dumps(item)
BackendPush(o) ==
    /\ Len(caller.pushed) < MaxPushes
    /\ memory' = [memory EXCEPT !.queue = push_task_queue(@, o)]
    /\ redis' = [redis EXCEPT !.list = lpush(@, json_dumps(caller.objs[o]))]
    /\ caller' = [Returns(caller, "push_task_queue", None, None) EXCEPT
                     !.pushed = Append(@, [obj |-> o, value |-> caller.objs[o]])]
    /\ UNCHANGED <<dag, call, sched, dags, statuses, queue, wk, executions, loop_forever, available, api, cancel, pushes>>

\* pop_task_queue(timeout): _queue.get hands out the dict that was put, brpop
\* json.loads of the value at the right end; None after the timeout
BackendPop ==
    /\ IF memory.queue = <<>>
       THEN /\ caller' = Returns(caller, "pop_task_queue", None,
                                 IF redis.list = <<>> THEN None
                                 ELSE Some(json_loads(brpop_value(redis.list))))
            /\ UNCHANGED memory
       ELSE /\ memory' = [memory EXCEPT !.queue = Tail(@)]
            /\ caller' =
                  [Returns(caller, "pop_task_queue",
                           Some(caller.objs[Head(memory.queue)]),
                           IF redis.list = <<>> THEN None
                           ELSE Some(json_loads(brpop_value(redis.list)))) EXCEPT
                     !.popped.memory = Append(@, Head(memory.queue)),
                     !.popped.redis = IF redis.list = <<>> THEN @
                                      ELSE Append(@, json_loads(brpop_value(redis.list)))]
    /\ redis' = IF redis.list = <<>> THEN redis
                ELSE [redis EXCEPT !.list = brpop_rest(@)]
    /\ UNCHANGED <<dag, call, sched, dags, statuses, queue, wk, executions, loop_forever, available, api, cancel, pushes>>

\* the caller changes a dict it passed in, as the retry path of the worker
\* does: payload["attempt"] = next_attempt
CallerMutate(o) ==
    /\ caller.objs[o].attempt < MaxRetries
    /\ caller' = [caller EXCEPT !.objs[o].attempt = NextAttempt(@)]
    /\ UNCHANGED <<dag, call, sched, dags, statuses, queue, wk, executions, loop_forever, available, api, cancel, pushes, memory, redis>>

\* save_task_status(key, status, meta) with meta one of the caller's dicts:
\* both backends build a new dict {"status": status, **meta}
BackendSaveStatus(key, status, o) ==
    /\ memory' = [memory EXCEPT
                     !.statuses = save_task_status(@, key, status, caller.objs[o])]
    /\ redis' = [redis EXCEPT !.statuses =
                    [k \in DOMAIN @ \cup {key} |->
                        IF k = key
                        THEN json_dumps(save_task_status(<<>>, key, status,
                                                         caller.objs[o])[key])
                        ELSE @[k]]]
    /\ caller' = [Returns(caller, "save_task_status", None, None) EXCEPT
                     !.held.live = @ /\ caller.held.key # key]
    /\ UNCHANGED <<dag, call, sched, dags, statuses, queue, wk, executions, loop_forever, available, api, cancel, pushes>>

\* get_task_status(key): the in-memory backend hands out the stored dict
\* itself, the Redis backend a fresh json.loads; the caller keeps the dict
BackendGetStatus(key) ==
    /\ LET m == get_task_status(memory.statuses, key)
           r == RedisGetTaskStatus(redis.statuses, key)
       IN  caller' = [Returns(caller, "get_task_status", Some(m), Some(r)) EXCEPT
                        !.held = [key |-> key, live |-> key \in DOMAIN memory.statuses,
                                  memory |-> m, redis |-> r]]
    /\ UNCHANGED <<dag, call, sched, dags, statuses, queue, wk, executions, loop_forever, available, api, cancel, pushes, memory, redis>>

\* the caller changes the dict it received, as cancel_run does:
\* status["status"] = "cancelled"
CallerMutateReceived ==
    /\ caller.held.memory # <<>> /\ caller.held.redis # <<>>
    /\ caller.held.memory.status \in {"queued", "running"}
    /\ caller' = [caller EXCEPT !.held.memory.status = "cancelled",
                                !.held.redis.status = "cancelled"]
    /\ memory' = IF caller.held.live
                 THEN [memory EXCEPT !.statuses[caller.held.key].status = "cancelled"]
                 ELSE memory
    /\ UNCHANGED <<dag, call, sched, dags, statuses, queue, wk, executions, loop_forever, available, api, cancel, pushes, redis>>

\* save_dag(dag_id, dag_json)
BackendSaveDag(dag_id, dag_json) ==
    /\ memory' = [memory EXCEPT !.dags =
                     [k \in DOMAIN @ \cup {dag_id} |-> IF k = dag_id THEN dag_json ELSE @[k]]]
    /\ redis' = [redis EXCEPT !.dags =
                    [k \in DOMAIN @ \cup {dag_id} |-> IF k = dag_id THEN dag_json ELSE @[k]]]
    /\ caller' = Returns(caller, "save_dag", None, None)
    /\ UNCHANGED <<dag, call, sched, dags, statuses, queue, wk, executions, loop_forever, available, api, cancel, pushes>>

\* load_dag(dag_id)
BackendLoadDag(dag_id) ==
    /\ caller' = Returns(caller, "load_dag", MemoryLoadDag(memory.dags, dag_id),
                         RedisLoadDag(redis.dags, dag_id))
    /\ UNCHANGED <<dag, call, sched, dags, statuses, queue, wk, executions, loop_forever, available, api, cancel, pushes, memory, redis>>

(***************************************************************************)
(* Specifications.                                                         *)
(***************************************************************************)
\* the scheduler and NumWorkers concurrent workers on a valid DAG
Next == schedule_dag \/ \E w \in Workers : WorkerStep(w)

Spec == Init /\ [][Next]_vars

\* the scheduler and one worker
NextSerial == schedule_dag \/ WorkerStep(1)

SpecSerial == Init /\ [][NextSerial]_vars

\* the scheduler and one worker, both running whenever they can take a step
SpecSerialFair == Init /\ [][NextSerial]_vars /\ WF_vars(NextSerial)

\* schedule_dag, and Worker.run(loop_forever=False) called once schedule_dag
\* has returned, running whenever it can take a step
InitOneShot ==
    /\ dag \in RunDags
    /\ call = NoCall
    /\ InitScheduler(FirstRunId)
    /\ InitRun(FALSE)
    /\ caller = NoCaller

NextOneShot ==
    \/ schedule_dag
    \/ sched.pc = "done" /\ WorkerStep(1)

SpecOneShot == InitOneShot /\ [][NextOneShot]_vars /\ WF_vars(NextOneShot)

\* the scheduler and one worker on a task and its child, for every retry count
InitBackoff == dag \in BackoffDags /\ InitStore

SpecBackoff == InitBackoff /\ [][NextSerial]_vars

\* the scheduler and one worker, for every run id
SpecRunIds == InitRunIds /\ [][NextSerial]_vars

\* the scheduler and one worker on a Redis server that goes away and comes
\* back; the executor and time.sleep do not need the server
NextOutage ==
    \/ available /\ schedule_dag
    \/ SchedulerRaises
    \/ available /\ WorkerStep(1)
    \/ ~available /\ \E result \in ExecutorResults : Execute(1, result)
    \/ ~available /\ RetrySleep(1)
    \/ WorkerRaises(1)
    \/ BackendDown
    \/ BackendUp

SpecOutage == Init /\ [][NextOutage]_vars

\* the scheduler and one worker whose every execution returns `success`, both
\* running whenever they can take a step
SuccessResult == CHOOSE r \in ExecutorResults : r.status = "success"

NextSerialSuccess ==
    \/ schedule_dag
    \/ Pop(1)
    \/ PopTimeout(1)
    \/ RecordRunningAttempt(1)
    \/ RecordRunningCanonical(1)
    \/ Execute(1, SuccessResult)
    \/ RecordResultAttempt(1)
    \/ RecordResultCanonical(1)
    \/ CheckDependency(1)
    \/ CheckAlreadyScheduled(1)
    \/ ChildQueuedAttempt(1)
    \/ ChildQueuedCanonical(1)
    \/ ChildPush(1)

SpecSerialSuccess ==
    Init /\ [][NextSerialSuccess]_vars /\ WF_vars(NextSerialSuccess)

\* one step of worker w whose executor returns `success` every time
WorkerStepSuccess(w) ==
    \/ Pop(w)
    \/ PopTimeout(w)
    \/ RecordRunningAttempt(w)
    \/ RecordRunningCanonical(w)
    \/ Execute(w, SuccessResult)
    \/ RecordResultAttempt(w)
    \/ RecordResultCanonical(w)
    \/ CheckDependency(w)
    \/ CheckAlreadyScheduled(w)
    \/ ChildQueuedAttempt(w)
    \/ ChildQueuedCanonical(w)
    \/ ChildPush(w)

\* the scheduler and NumWorkers concurrent workers whose every execution
\* returns `success`; the scheduler and every worker keep running
NextSuccess == schedule_dag \/ \E w \in Workers : WorkerStepSuccess(w)

SpecSuccess ==
    /\ Init /\ [][NextSuccess]_vars
    /\ WF_vars(schedule_dag)
    /\ \A w \in Workers : WF_vars(WorkerStepSuccess(w))

\* the scheduler, one worker and one call of cancel_run
NextCancel == schedule_dag \/ WorkerStep(1) \/ cancel_run

SpecCancel == Init /\ [][NextCancel]_vars

\* cancel_run is inside its body
CancelActive == cancel.pc \in {"save_run", "get_task", "save_task"}

\* the scheduler, one worker and one call of cancel_run during which neither
\* the scheduler nor the worker takes a step
NextCancelAlone ==
    \/ ~CancelActive /\ schedule_dag
    \/ ~CancelActive /\ WorkerStep(1)
    \/ cancel_run

SpecCancelAlone == Init /\ [][NextCancelAlone]_vars

\* the scheduler and one worker, which may call _schedule_downstream again
\* for any parent that has succeeded
NextFanOut ==
    \/ schedule_dag
    \/ WorkerStep(1)
    \/ \E t \in TaskIds(dag), k \in 0..MaxRetries : CallScheduleDownstream(1, t, k)

SpecFanOut == Init /\ [][NextFanOut]_vars

\* execute_task on every payload and process behaviour
InitExec ==
    /\ dag = EmptyDag
    /\ \E in \in ExecInputs : call = [fn |-> "input", input |-> in]
    /\ InitPersistence

NextExec == CallExecuteTask

SpecExec == InitExec /\ [][NextExec]_vars

\* RedisPersistence(redis_url) and the commands that follow, on a server that
\* goes away and comes back at any moment
InitConnect ==
    /\ dag = EmptyDag
    /\ call = EnterConnect([fn |-> "RedisPersistence", pc |-> "connect", attempt |-> 0,
                            tried |-> 0, slept |-> <<>>, commands |-> 0,
                            result |-> "none"])
    /\ InitPersistence

NextConnect ==
    \/ ConnectAttempt
    \/ ConnectSleep
    \/ ClientPing
    \/ BackendDown
    \/ BackendUp

SpecConnect == InitConnect /\ [][NextConnect]_vars

\* _call_with_metadata on every callable and metadata
InitCallable ==
    /\ dag = EmptyDag
    /\ \E in \in CallableInputs :
          call = [fn |-> "_call_with_metadata", pc |-> "start", input |-> in,
                  invocations |-> <<>>, result |-> "none"]
    /\ InitPersistence

NextCallable == CallKeywords \/ CallPositional \/ CallNoArguments \/ AwaitCoroutine

SpecCallable == InitCallable /\ [][NextCallable]_vars

\* every sequence of calls on the two backends, by a caller that keeps and
\* changes the dicts it passed in or received
NextBackend ==
    \/ \E o \in Objects : BackendPush(o)
    \/ BackendPop
    \/ \E o \in Objects : CallerMutate(o)
    \/ \E key \in StatusKeys, status \in {"queued", "success"}, o \in Objects :
          BackendSaveStatus(key, status, o)
    \/ \E key \in StatusKeys : BackendGetStatus(key)
    \/ CallerMutateReceived
    \/ \E dag_id \in DagIds, dag_json \in DagJsons : BackendSaveDag(dag_id, dag_json)
    \/ \E dag_id \in DagIds : BackendLoadDag(dag_id)

SpecBackend == InitDag /\ [][NextBackend]_vars

\* every sequence of push_task_queue and pop_task_queue calls on the two
\* backends, by a caller that changes the dicts it pushed
NextQueue ==
    \/ \E o \in Objects : BackendPush(o)
    \/ BackendPop
    \/ \E o \in Objects : CallerMutate(o)

SpecQueue == InitDag /\ [][NextQueue]_vars

\* the payloads of a run pushed onto and popped from the two backends
NextRoundTrip ==
    \/ \E o \in Objects : BackendPush(o)
    \/ BackendPop

SpecRoundTrip == InitRoundTrip /\ [][NextRoundTrip]_vars

\* POST /dags with every DAG document and POST /dags/{dag_id}/run; the
\* client writes its document until one is stored
NextApi ==
    \/ dags = <<>> /\ api.pc = "idle" /\ AddTask
    \/ dags = <<>> /\ api.pc = "idle" /\
          \E t \in TaskIds(dag), dep \in TaskIds(dag) \cup {UnknownId} : AddDependency(t, dep)
    \/ RegisterDag
    \/ \E dag_id \in RequestedDagIds, uuid \in Uuids : TriggerRun(dag_id, uuid)
    \/ api.pc = "schedule_dag" /\ schedule_dag
    \/ TriggerReturn

SpecApi == InitDag /\ [][NextApi]_vars

\* validate, topological_sort and schedule_dag on every DAG document
NextDag ==
    \/ AddTask
    \/ \E t \in TaskIds(dag), dep \in TaskIds(dag) \cup {UnknownId} : AddDependency(t, dep)
    \/ CallValidate
    \/ CallTopologicalSort
    \/ schedule_dag

SpecDag == InitDag /\ [][NextDag]_vars


(***************************************************************************)
(* Properties.                                                             *)
(***************************************************************************)
CanonicalStatus(t) == StatusOf(statuses, CanonicalKey(RunId, t))
AttemptStatus(t, k) == StatusOf(statuses, TaskRunId(RunId, t, k))

\* worker w writes `running` (either write of _process_task step 1) in this step
WritesRunning(w) ==
    \/ wk[w].pc = "running_attempt" /\ wk'[w].pc = "running_canonical"
    \/ wk[w].pc = "running_canonical" /\ wk'[w].pc = "execute"

\* C1: dependency gate.  Whenever a worker writes status `running` for a
\* task, every task in the task's dependencies has canonical status `success`
\* at that moment.
C1_DependencyGate ==
    [][\A w \in Workers :
          WritesRunning(w) =>
              \A i \in DOMAIN wk[w].payload.dependencies :
                  CanonicalStatus(wk[w].payload.dependencies[i]) = "success"]_vars

\* C2: at-most-once execution.  With concurrent workers every task_run_id is
\* passed to the executor at most once.
C2_AtMostOnce == \A id \in DOMAIN executions : executions[id] <= 1

\* the number of times task t was passed to the executor, over its attempts
RECURSIVE ExecutionsFrom(_, _)
ExecutionsFrom(t, k) ==
    IF k > dag.retries[t] + 1 THEN 0
    ELSE Count(executions, TaskRunId(RunId, t, k)) + ExecutionsFrom(t, k + 1)

ExecutionsOfTask(t) == ExecutionsFrom(t, 0)

\* C3: retry bound.  Every task is passed to the executor at most
\* 1 + retries times, for any number of workers.
C3_RetryBound ==
    \A t \in TaskIds(dag) : ExecutionsOfTask(t) <= 1 + dag.retries[t]


\* the attempt numbers a task of the run can reach
Attempts == 0..(MaxRetries + 1)

\* C4: no duplicate execution with a serial worker.  For every task at most
\* one attempt key holds `success`, and when attempt k does, every attempt
\* before k holds `failed` or `timeout`.
C4_SerialSingleSuccess ==
    \A t \in TaskIds(dag) : \A k \in Attempts :
        AttemptStatus(t, k) = "success" =>
            /\ \A j \in Attempts : j # k => AttemptStatus(t, j) # "success"
            /\ \A j \in 0..(k - 1) : AttemptStatus(t, j) \in {"failed", "timeout"}

\* a retried task whose second attempt succeeded after a failed first one
C4_Witness ==
    \E t \in TaskIds(dag) :
        /\ AttemptStatus(t, 1) = "success"
        /\ AttemptStatus(t, 0) \in {"failed", "timeout"}

\* the run is complete: every task `success`, the queue drained, the worker
\* idle, one execution per task, each the successful attempt 0
Completed ==
    /\ sched.pc = "done"
    /\ queue = <<>>
    /\ \A w \in Workers : wk[w].pc = "pop"
    /\ \A t \in TaskIds(dag) :
          /\ CanonicalStatus(t) = "success"
          /\ AttemptStatus(t, 0) = "success"
          /\ ExecutionsOfTask(t) = 1
          /\ Count(executions, TaskRunId(RunId, t, 0)) = 1

\* C5: run completion with one worker.  With a single worker whose every
\* execution returns `success`, the run eventually is complete.
C5_SerialCompletion == <>Completed

\* a completed run of a DAG with a fan-in
C5_Witness ==
    /\ Completed
    /\ \E t \in TaskIds(dag) : Len(dag.deps[t]) > 1


\* the tasks without dependencies, in the insertion order of tasks
Roots(d) == SelectSeq(d.ids, LAMBDA t : d.deps[t] = <<>>)

\* C6: root seeding.  After schedule_dag on a valid DAG and an empty queue
\* the queue holds exactly one payload per task without dependencies, in
\* the insertion order of tasks, each with attempt 0 and task_run_id
\* run:task:0, and no payload of a task that has a dependency.
C6_RootSeeding ==
    sched.pc = "done" =>
        /\ Len(queue) = Len(Roots(dag))
        /\ \A i \in DOMAIN queue :
              /\ queue[i].task_id = Roots(dag)[i]
              /\ queue[i].attempt = 0
              /\ queue[i].task_run_id = <<RunId, Roots(dag)[i], 0>>
              /\ queue[i].dependencies = <<>>

\* schedule_dag returned for a DAG with two roots or more and a dependent task
C6_Witness ==
    /\ sched.pc = "done"
    /\ Len(queue) >= 2
    /\ Len(dag.ids) > Len(queue)

\* C7: queued before push.  At the moment a payload is pushed onto the task
\* queue, by the scheduler or by a worker, the canonical status of its task
\* is `queued`.
C7_QueuedBeforePush ==
    [][Len(queue') > Len(queue) =>
          LET pushed == queue'[Len(queue')]
          IN  StatusOf(statuses, CanonicalKey(pushed.run_id, pushed.task_id))
                  = "queued"]_vars

\* order holds every task id exactly once
IsPermutation(order, ids) ==
    /\ Len(order) = Len(ids)
    /\ Range(order) = Range(ids)
    /\ \A i, j \in DOMAIN order : i # j => order[i] # order[j]

\* every task comes after all of its dependencies
DependenciesFirst(d, order) ==
    \A i \in DOMAIN order : \A k \in DOMAIN d.deps[order[i]] :
        \E j \in 1..(i - 1) : order[j] = d.deps[order[i]][k]

\* C8: topological order.  For every DAG that passes validate,
\* topological_sort returns a permutation of the task ids in which every task
\* comes after all of its dependencies.
C8_TopologicalOrder ==
    (call.fn = "topological_sort" /\ validate(dag) = "ok") =>
        /\ call.result.err = "ok"
        /\ IsPermutation(call.result.order, dag.ids)
        /\ DependenciesFirst(dag, call.result.order)

\* a valid DAG with a fan-in, sorted into an order other than the insertion order
C8_Witness ==
    /\ call.fn = "topological_sort" /\ validate(dag) = "ok"
    /\ \E t \in TaskIds(dag) : Len(dag.deps[t]) > 1
    /\ call.result.order # dag.ids

\* task t depends on task u through a chain of at most depth dependencies
RECURSIVE DependsOn(_, _, _, _)
DependsOn(d, t, u, depth) ==
    /\ depth > 0
    /\ \E x \in Range(d.deps[t]) \cap TaskIds(d) :
          x = u \/ DependsOn(d, x, u, depth - 1)

\* the dependency relation of d has a cycle
Cyclic(d) == \E t \in TaskIds(d) : DependsOn(d, t, t, Len(d.ids))

\* some dependency entry is no key of tasks
HasUnknownDependency(d) ==
    \E t \in TaskIds(d) : \E i \in DOMAIN d.deps[t] : d.deps[t][i] \notin TaskIds(d)

\* C9: cycle rejection.  For every DAG whose dependencies all name existing
\* tasks and whose dependency relation has a cycle, validate fails with Cycle.
C9_CycleRejected ==
    (call.fn = "validate" /\ ~HasUnknownDependency(dag) /\ Cyclic(dag)) =>
        call.result = "Cycle"

\* validate was called on a cycle through three tasks
C9_Witness ==
    /\ call.fn = "validate" /\ call.result = "Cycle"
    /\ ~HasUnknownDependency(dag)
    /\ Len(dag.ids) >= 3
    /\ \A t \in TaskIds(dag) :
          Len(dag.deps[t]) = 1 /\ DependsOn(dag, t, t, Len(dag.ids))
                               /\ ~DependsOn(dag, t, t, 2)

\* C10: unknown dependency.  For every DAG in which some task lists a
\* dependency that is no key of tasks, validate fails with UnknownDependency,
\* whether or not the rest of the graph is cyclic.
C10_UnknownDependency ==
    (call.fn = "validate" /\ HasUnknownDependency(dag)) =>
        call.result = "UnknownDependency"

\* validate was called on a DAG with an unknown dependency and a cycle
C10_Witness ==
    /\ call.fn = "validate" /\ call.result = "UnknownDependency"
    /\ HasUnknownDependency(dag)
    /\ Cyclic(dag)

\* C11: validation failure aborts with no effect.  When schedule_dag is called
\* with a DAG that fails validation, the error (Cycle or UnknownDependency) is
\* raised and the persistence state is unchanged: no DAG saved, no run
\* metadata or task status written, nothing pushed.
C11_ValidationAborts ==
    sched.pc = "raised" =>
        /\ sched.error \in {"Cycle", "UnknownDependency"}
        /\ sched.error = validate(dag)
        /\ dags = <<>> /\ statuses = <<>> /\ queue = <<>> /\ pushes = <<>>

\* schedule_dag raised Cycle for a -> b -> c -> a
C11_Witness ==
    /\ sched.pc = "raised" /\ sched.error = "Cycle"
    /\ Len(dag.ids) = 3
    /\ \A t \in TaskIds(dag) : Len(dag.deps[t]) = 1 /\ ~DependsOn(dag, t, t, 2)

Failures == {"failed", "timeout"}
Terminal == {"success", "failed", "timeout", "cancelled"}

\* key is an attempt key {run_id}:{task_id}:{attempt}
IsAttemptKey(key) == Len(key) = 3

\* the single worker is between the two writes of _record_status for task t
BetweenResultWrites(t) ==
    \E w \in Workers : wk[w].pc = "result_canonical" /\ wk[w].payload.task_id = t

\* C12: retry then success.  With one worker, once attempt k of a task holds
\* `success` the canonical status is `success` and the attempt keys 0..k-1
\* hold their failure statuses with their stderr; no record of a finished
\* attempt is ever overwritten by a retry.
C12_RetryThenSuccess ==
    /\ [](\A t \in TaskIds(dag) : \A k \in Attempts :
            AttemptStatus(t, k) = "success" =>
                /\ BetweenResultWrites(t) \/ CanonicalStatus(t) = "success"
                /\ k <= dag.retries[t]
                /\ \A j \in 0..(k - 1) :
                      /\ AttemptStatus(t, j) \in Failures
                      /\ statuses[TaskRunId(RunId, t, j)].stderr # "")
    /\ [][\A key \in DOMAIN statuses :
            (IsAttemptKey(key) /\ statuses[key].status \in Terminal) =>
                statuses'[key] = statuses[key]]_vars

\* a task whose attempt 0 failed and whose attempt 1 succeeded, canonical `success`
C12_Witness ==
    \E t \in TaskIds(dag) :
        /\ AttemptStatus(t, 0) \in Failures
        /\ statuses[TaskRunId(RunId, t, 0)].stderr # ""
        /\ AttemptStatus(t, 1) = "success"
        /\ CanonicalStatus(t) = "success"

\* the last configured attempt of task t returned a non-success result and
\* both writes of _record_status were made: retries are exhausted
Exhausted(t) ==
    /\ AttemptStatus(t, dag.retries[t]) \in Failures
    /\ CanonicalStatus(t) \in Failures
    /\ statuses[CanonicalKey(RunId, t)] = statuses[TaskRunId(RunId, t, dag.retries[t])]

\* C13: retries exhausted.  Once an execution returned `failed` or `timeout`
\* with attempt >= retries, nothing is pushed for the task and no status of
\* the task is written: the canonical record stays that failure record, with
\* its stderr, for the rest of the run.
C13_RetriesExhausted ==
    [][\A t \in TaskIds(dag) :
          Exhausted(t) =>
              /\ statuses'[CanonicalKey(RunId, t)] = statuses[CanonicalKey(RunId, t)]
              /\ statuses[CanonicalKey(RunId, t)].stderr # ""
              /\ \A k \in Attempts :
                    /\ AttemptStatus(t, k)' = AttemptStatus(t, k)
                    /\ Count(pushes', TaskRunId(RunId, t, k)) =
                           Count(pushes, TaskRunId(RunId, t, k))]_vars

RunCancelled == StatusOf(statuses, RunKey(RunId)) = "cancelled"

\* worker w pops a payload in this step and goes on to write `running`
PopsToRunning(w) == wk[w].pc = "pop" /\ wk'[w].pc = "running_attempt"

\* C14: cancellation is observed by workers.  Once `cancelled` is written to
\* run:{run_id}, a worker that pops a payload of the run does not go on to
\* write `running` and to invoke the executor for it.
C14_CancellationObserved ==
    [][\A w \in Workers :
          (RunCancelled /\ PopsToRunning(w)) =>
              wk'[w].payload.run_id # RunId]_vars

\* C15: terminal statuses are final.  Under any interleaving of a worker and
\* cancel_run, an attempt record or a canonical record that holds `success`,
\* `cancelled`, `failed` or `timeout` is not overwritten with a different
\* status, other than a canonical failure replaced by `queued` for the retry.
C15_TerminalFinal ==
    [][\A key \in DOMAIN statuses \ {RunKey(RunId)} :
          statuses[key].status \in Terminal =>
              \/ statuses'[key].status = statuses[key].status
              \/ /\ ~IsAttemptKey(key)
                 /\ statuses[key].status \in Failures
                 /\ statuses'[key].status = "queued"
                 /\ statuses'[key].task_run_id[3] > 0]_vars

\* C16: idempotent fan-out.  Over all repeated calls of _schedule_downstream
\* with the payload of a parent that has succeeded, whatever state the
\* children have reached, each child task_run_id {run_id}:{child}:0 is pushed
\* at most once.
C16_IdempotentFanOut ==
    \A t \in TaskIds(dag) :
        dag.deps[t] # <<>> => Count(pushes, TaskRunId(RunId, t, 0)) <= 1

\* C17: execute never throws.  For every payload, also one with neither
\* command nor callable, execute_task returns a result whose status is
\* success, failed or timeout, and raises nothing.
C17_ExecuteNeverThrows ==
    call.fn = "execute_task" =>
        /\ call.result.raised = "none"
        /\ call.result.status \in {"success", "failed", "timeout"}

\* execute_task was called for a command
CommandCall == call.fn = "execute_task" /\ Truthy(call.input.command)

\* C18: command result mapping.  For a command task the status is success
\* iff the process exited with code 0 and failed for every other exit code,
\* with that exit code reported; when the timeout elapses first the status is
\* timeout, exit_code is null and stderr is the fixed diagnostic.
C18_CommandMapping ==
    CommandCall =>
        IF call.input.timed_out
        THEN /\ call.result.raised = "none"
             /\ call.result.status = "timeout"
             /\ call.result.exit_code = <<>>
             /\ call.result.stderr = "Command execution exceeded timeout"
        ELSE /\ call.result.raised = "none"
             /\ call.result.status = "success" <=> call.input.returncode = 0
             /\ call.input.returncode # 0 => call.result.status = "failed"
             /\ call.result.exit_code = <<call.input.returncode>>
             /\ call.result.stderr = call.input.stderr

\* a command that exited with a positive code was reported failed
C18_Witness ==
    /\ CommandCall /\ ~call.input.timed_out
    /\ call.input.returncode > 0
    /\ call.result.status = "failed"

\* the first Len(popped) pushes were popped, the others are in the queue
IsPrefixOf(popped, pushed, queued) ==
    /\ Len(popped) + queued = Len(pushed)
    /\ \A i \in DOMAIN popped : popped[i] = pushed[i]

PushedObjects == [i \in DOMAIN caller.pushed |-> caller.pushed[i].obj]
PushedValues == [i \in DOMAIN caller.pushed |-> caller.pushed[i].value]

\* a pop_task_queue call returns in this step
PopReturns == caller'.fn = "pop_task_queue" /\ caller' # caller

\* C19: FIFO queue.  On both backends payloads are popped in the order they
\* were pushed, each pushed payload is returned by exactly one pop, and pop
\* returns None only when the queue is empty.
C19_Fifo ==
    /\ [](/\ IsPrefixOf(caller.popped.memory, PushedObjects, Len(memory.queue))
          /\ IsPrefixOf(caller.popped.redis, PushedValues, Len(redis.list)))
    /\ [][PopReturns =>
            /\ caller'.ret.memory = None => memory.queue = <<>>
            /\ caller'.ret.redis = None => redis.list = <<>>]_vars

\* two payloads were pushed and both were popped, from both backends
C19_Witness ==
    /\ Len(caller.popped.memory) = 2 /\ Len(caller.popped.redis) = 2
    /\ caller.pushed[1].obj # caller.pushed[2].obj

\* C20: backend equivalence.  For every sequence of calls, by callers that
\* may keep and later change the dicts they passed in or received, every call
\* returns equal values on the in-memory and on the Redis backend.
C20_BackendEquivalence == caller.ret.memory = caller.ret.redis

\* the record _persist_run writes at run:{run_id}
RunRecord ==
    save_task_status(<<>>, RunKey(RunId), "scheduled",
                     RunMetadata(dag, RunId))[RunKey(RunId)]

\* C21: the run record is never touched after scheduling.  For every run_id
\* and every set of task ids, no step of a worker writes the record at
\* run:{run_id}, and once schedule_dag has returned that record holds status
\* `scheduled` and the run metadata, whatever the workers do.
C21_RunRecordUntouched ==
    /\ [](sched.pc = "done" => statuses[RunKey(RunId)] = RunRecord)
    /\ [][\A w \in Workers :
            (wk'[w] # wk[w] /\ RunKey(RunId) \in DOMAIN statuses) =>
                statuses'[RunKey(RunId)] = statuses[RunKey(RunId)]]_vars

\* C22: a worker survives backend unavailability.  When a persistence call
\* (pop, status write or push) fails because the backend is unavailable,
\* Worker.run does not end: the worker stays in its loop and processes the
\* tasks pushed after the backend is back.
C22_WorkerSurvives == \A w \in Workers : wk[w].pc # "raised"

\* C23: payload round trip.  Every payload produced by schedule_dag or by a
\* worker (root, child or retry payload) that is pushed and popped comes
\* back equal to the payload pushed, field by field, the nested
\* dag_blueprint included, on the in-memory and on the Redis backend.
C23_PayloadRoundTrip ==
    /\ \A i \in DOMAIN caller.popped.redis :
          caller.popped.redis[i] = caller.pushed[i].value
    /\ \A i \in DOMAIN caller.popped.memory :
          caller.objs[caller.popped.memory[i]] = caller.pushed[i].value

\* trigger_run has returned its response
TriggerReturned == api.fn = "trigger_run" /\ api.pc = "idle"

\* C24: triggering a run.  After register_dag has stored a valid DAG,
\* trigger_run(dag_id) calls Scheduler.schedule_dag exactly once, with a DAG
\* of that id and a freshly generated non-empty run_id, and returns that
\* run_id; for a dag_id that was never stored it answers not-found and
\* changes neither the queue nor any status.
C24_TriggerRun ==
    /\ [](TriggerReturned =>
            IF api.dag_id \in DOMAIN dags
            THEN /\ api.ret.status = 200
                 /\ Len(api.scheduled) = 1
                 /\ api.scheduled[1].dag_id = api.dag_id
                 /\ api.scheduled[1].run_id = api.ret.run_id
                 /\ api.ret.run_id \in Uuids /\ api.ret.run_id # ""
                 /\ sched.pc = "done" /\ RunId = api.ret.run_id /\ dag.id = api.dag_id
                 /\ StatusOf(statuses, RunKey(api.ret.run_id)) = "scheduled"
            ELSE /\ api.ret.status = 404
                 /\ api.scheduled = <<>>)
    /\ [][(api'.fn = "trigger_run" /\ api'.ret.status = 404 /\ api' # api) =>
            UNCHANGED <<queue, statuses, dags, pushes>>]_vars

\* a stored DAG with a fan-in was triggered and its two roots were queued
C24_Witness ==
    /\ TriggerReturned /\ api.ret.status = 200
    /\ Len(queue) = 2
    /\ \E t \in TaskIds(dag) : Len(dag.deps[t]) = 2

\* the canonical record of task t changes from status old to status new
LifecycleStep(t, old, new) ==
    \/ old = "absent" /\ new = "queued"
    \/ old = "queued" /\ new = "running"
    \/ old = "running" /\ new \in {"success", "failed", "timeout"}
    \/ /\ old \in Failures /\ new = "queued"
       /\ statuses'[CanonicalKey(RunId, t)].task_run_id[3] > 0
    \/ old \in {"queued", "running"} /\ new = "cancelled"

\* C25: status lifecycle.  Under any interleaving of the scheduler, the
\* workers and cancel_run, every change of a task's canonical status is
\* absent -> queued, queued -> running, running -> success | failed |
\* timeout, failed | timeout -> queued for the retry, or queued | running ->
\* cancelled; the first status written is `queued`.
C25_StatusLifecycle ==
    [][\A t \in TaskIds(dag) :
          CanonicalStatus(t)' # CanonicalStatus(t) =>
              LifecycleStep(t, CanonicalStatus(t), CanonicalStatus(t)')]_vars

\* the canonical record of the payload's task is `queued` for this very
\* attempt of it
QueuedFor(payload) ==
    LET status == get_task_status(statuses,
                                  CanonicalKey(payload.run_id, payload.task_id))
    IN  /\ status # <<>>
        /\ status.status = "queued"
        /\ status.task_run_id = payload.task_run_id

\* worker w pops the head of the queue in this step
Pops(w) == wk[w].pc = "pop" /\ queue # <<>> /\ queue' = Tail(queue) /\ wk'[w] # wk[w]

\* C26: early-exit guard.  A worker that pops a payload whose task's
\* canonical status is not `queued` for that attempt (already running,
\* already terminal, or queued for another task_run_id) returns from
\* _process_task without invoking the executor and without writing a status.
C26_EarlyExit ==
    [][\A w \in Workers :
          (Pops(w) /\ ~QueuedFor(Head(queue))) =>
              /\ wk'[w].pc = "pop"
              /\ UNCHANGED <<statuses, executions>>]_vars

\* the scheduler or a worker has written the attempt record of a status pair
\* of task t and not yet the canonical record
BetweenWrites(t) ==
    \/ sched.pc = "queued_canonical" /\ Runnable(dag, RunId)[sched.i].task_id = t
    \/ \E w \in Workers :
          \/ /\ wk[w].pc \in {"running_canonical", "result_canonical",
                               "retry_queued_canonical"}
             /\ wk[w].payload.task_id = t
          \/ wk[w].pc = "child_queued_canonical" /\ ChildOf(wk[w]).task_id = t

\* the attempt numbers of task t for which a record was written
WrittenAttempts(t) == {k \in Attempts : TaskRunId(RunId, t, k) \in DOMAIN statuses}

HighestAttempt(t) ==
    CHOOSE k \in WrittenAttempts(t) : \A j \in WrittenAttempts(t) : j <= k

\* C27: latest attempt wins.  Whenever nobody is between the two writes of a
\* status pair of a task and the task is not cancelled, the canonical record
\* {run_id}:{task_id} equals the record at the attempt key of the highest
\* attempt number written so far for the task.
C27_LatestAttemptWins ==
    \A t \in TaskIds(dag) :
        (WrittenAttempts(t) # {} /\ ~BetweenWrites(t)
            /\ CanonicalStatus(t) # "cancelled") =>
                statuses[CanonicalKey(RunId, t)] =
                    statuses[TaskRunId(RunId, t, HighestAttempt(t))]

\* status of a canonical record that cancel_run replaces
NonTerminal == {"queued", "running"}

\* record is rec with status `cancelled`, or rec itself
CancelledOrSame(rec, record) ==
    record = rec \/ record = [rec EXCEPT !.status = "cancelled"]

Slept(w) == wk[w].pc = "retry_sleep" /\ wk'[w].pc = "retry_queued_attempt"

\* worker w pushes the payload of a retry in this step
RetryPushed(w) == wk[w].pc = "retry_push" /\ wk'[w].pc = "pop"

\* C29: retry backoff.  Before attempt k + 1 of a task whose attempt k was
\* non-success (k < retries) is queued again, the worker sleeps 2 * 2^k
\* seconds (2, 4, 8, ...), and the payload queued again has attempt k + 1
\* and task_run_id {run_id}:{task_id}:{k+1}.
C29_RetryBackoff ==
    [][\A w \in Workers :
          /\ Slept(w) =>
                LET k == wk[w].payload.attempt
                IN  /\ wk[w].result.status \in Failures
                    /\ k < wk[w].payload.retries
                    /\ wk'[w].delay = 2 * (2 ^ k)
                    /\ wk'[w].payload.attempt = k + 1
                    /\ wk'[w].payload.task_run_id =
                           <<wk[w].payload.run_id, wk[w].payload.task_id, k + 1>>
                    /\ UNCHANGED <<statuses, queue>>
          /\ RetryPushed(w) =>
                LET p == wk[w].payload
                IN  /\ queue' = Append(queue, p)
                    /\ p.attempt >= 1
                    /\ p.task_run_id = <<p.run_id, p.task_id, p.attempt>>
                    /\ wk[w].delay = 2 * (2 ^ (p.attempt - 1))
                    /\ StatusOf(statuses, <<p.run_id, p.task_id, p.attempt - 1>>)
                           \in Failures]_vars

\* the payload of attempt 3 was queued again after a sleep of 8 seconds
C29_Witness ==
    /\ wk[1].pc = "pop" /\ queue # <<>>
    /\ Head(queue).attempt = 3
    /\ Head(queue).task_run_id = <<RunId, "a", 3>>
    /\ AttemptStatus("a", 2) \in Failures

\* the position of task t in the insertion order of tasks
InsertionIndex(d, t) == CHOOSE i \in DOMAIN d.ids : d.ids[i] = t

\* the tasks that are ready when order[i] is emitted: not emitted yet, all
\* their dependencies emitted
ReadyAt(d, order, i) ==
    LET emitted == {order[j] : j \in 1..(i - 1)}
    IN  {t \in TaskIds(d) \ emitted : Range(d.deps[t]) \subseteq emitted}

\* C30: topological tie-break.  For every valid DAG and every insertion
\* order, also when a dependent task is inserted before its dependency,
\* whenever several tasks are ready at the same time topological_sort emits
\* the one that comes first in the insertion order of tasks.
C30_TieBreak ==
    (call.fn = "topological_sort" /\ validate(dag) = "ok") =>
        /\ call.result.err = "ok"
        /\ \A i \in DOMAIN call.result.order :
              \A t \in ReadyAt(dag, call.result.order, i) :
                  InsertionIndex(dag, call.result.order[i]) <= InsertionIndex(dag, t)

\* schedule_dag has called build_run_tasks(dag, run_id) and it returned
BuiltRunTasks == sched.pc \in {"persist_run", "queued_attempt", "queued_canonical", "push", "done"}

\* C31: downstream is the inverse of dependencies.  In the payloads
\* build_run_tasks returns for a valid DAG, c is in the downstream list of p
\* if and only if p is in the dependencies list of c, and every payload has
\* attempt 0 and task_run_id {run_id}:{task_id}:0.
C31_DownstreamInverse ==
    BuiltRunTasks =>
        LET tasks == build_run_tasks(dag, RunId)
        IN  /\ Len(tasks) = Len(dag.ids)
            /\ \A i \in DOMAIN tasks :
                  /\ tasks[i].task_id = dag.ids[i]
                  /\ tasks[i].attempt = 0
                  /\ tasks[i].task_run_id = <<RunId, tasks[i].task_id, 0>>
            /\ \A p, c \in DOMAIN tasks :
                  Contains(tasks[p].downstream, tasks[c].task_id)
                      <=> Contains(tasks[c].dependencies, tasks[p].task_id)

\* build_run_tasks returned for a DAG with a task that has two downstream
\* tasks and a task that has two dependencies
C31_Witness ==
    /\ BuiltRunTasks
    /\ \E p, c \in DOMAIN build_run_tasks(dag, RunId) :
          /\ Len(build_run_tasks(dag, RunId)[p].downstream) >= 2
          /\ Len(build_run_tasks(dag, RunId)[c].dependencies) >= 2
          /\ Contains(build_run_tasks(dag, RunId)[p].downstream,
                      build_run_tasks(dag, RunId)[c].task_id)

\* the payload carries the base payload build_run_tasks made of every task
CarriesBlueprint(payload) ==
    /\ DOMAIN payload.dag_blueprint = TaskIds(dag)
    /\ \A t \in TaskIds(dag) :
          payload.dag_blueprint[t] = BasePayload(dag, payload.run_id, t)

\* _build_child_payload returns a payload for every downstream child
BuildsEveryChild(payload) ==
    \A j \in DOMAIN payload.downstream :
        /\ HasChildPayload(payload, payload.downstream[j])
        /\ _build_child_payload(payload, payload.downstream[j]).task_id
               = payload.downstream[j]

\* C32: blueprint carried on every message.  Every payload on the queue
\* (pushed by the scheduler, by fan-out or by a retry) and every payload a
\* worker popped carries a dag_blueprint that holds the base payload of every
\* task of the run, so that fan-out can build each downstream child from it.
C32_BlueprintCarried ==
    /\ \A i \in DOMAIN queue : CarriesBlueprint(queue[i]) /\ BuildsEveryChild(queue[i])
    /\ \A w \in Workers :
          wk[w].payload # NoPayload =>
              CarriesBlueprint(wk[w].payload) /\ BuildsEveryChild(wk[w].payload)

\* the queue holds the retry of a task that was pushed by fan-out and has a
\* downstream task of its own
C32_Witness ==
    \E i \in DOMAIN queue :
        /\ queue[i].attempt = 1
        /\ queue[i].dependencies # <<>>
        /\ queue[i].downstream # <<>>
        /\ CarriesBlueprint(queue[i])

\* task_run_id is built from the payload's own run_id, task_id and attempt,
\* and the attempt is one the task's retries allow
WellFormed(payload) ==
    /\ payload.task_run_id = <<payload.run_id, payload.task_id, payload.attempt>>
    /\ 0 <= payload.attempt
    /\ payload.attempt <= payload.retries

\* C33: well-formed queue items.  For every payload on the queue in every
\* reachable state, task_run_id is {run_id}:{task_id}:{attempt} of the
\* payload's own fields and 0 <= attempt <= retries.
C33_WellFormedQueue == \A i \in DOMAIN queue : WellFormed(queue[i])

\* the queue holds a retry with its last attempt next to a first attempt
C33_Witness ==
    \E i, j \in DOMAIN queue :
        /\ queue[i].attempt >= 1 /\ queue[i].attempt = queue[i].retries
        /\ queue[j].attempt = 0
        /\ WellFormed(queue[i])

\* C34: callable argument convention.  With non-empty metadata the callable
\* is first invoked with metadata spread as keyword arguments; the second
\* invocation, with metadata as one positional argument, happens only when
\* the first call failed to bind its arguments; a callable whose body has
\* started executing is invoked exactly once.
C34_ArgumentConvention ==
    call.fn = "_call_with_metadata" =>
        LET inv == call.invocations
        IN  /\ (inv # <<>> /\ call.input.metadata # EmptyMetadata) =>
                    inv[1].args = "keywords"
            /\ Len(inv) <= 2
            /\ Len(inv) = 2 => (inv[2].args = "positional" /\ ~inv[1].bound)
            /\ \A i \in DOMAIN inv : inv[i].started => Len(inv) = 1

\* C35: connection policy.  A call of _connect makes at most 3 connection
\* attempts, waits min(2 * 2^i, 10) seconds between failed attempt i and
\* attempt i + 1 and does not wait after the last attempt, returns on the
\* first successful attempt and raises ConnectionError after the third
\* failure.
C35_ConnectionPolicy ==
    call.fn = "RedisPersistence" =>
        /\ call.tried <= 3
        /\ \A i \in DOMAIN call.slept :
              call.slept[i] = (IF 2 * (2 ^ (i - 1)) <= 10 THEN 2 * (2 ^ (i - 1)) ELSE 10)
        /\ call.pc = "connect" => Len(call.slept) = call.tried
        /\ (call.pc = "ready" /\ call.tried > 0) => Len(call.slept) = call.tried - 1
        /\ call.pc = "raised" => (call.tried = 3 /\ Len(call.slept) = 2
                                  /\ call.result = "ConnectionError")

\* C36: validation accepts every acyclic DAG.  For every DAG whose
\* dependency lists name only existing task ids, in any order and with or
\* without repeated entries, and whose dependency relation is acyclic,
\* validate raises nothing; and _has_cycle returns true exactly when
\* topological_sort raises Cycle on the same DAG.
C36_AcceptsAcyclic ==
    /\ (call.fn = "validate" /\ ~HasUnknownDependency(dag) /\ ~Cyclic(dag)) =>
            call.result = "ok"
    /\ (call.fn = "topological_sort" /\ ~HasUnknownDependency(dag)) =>
            (_has_cycle(dag) <=> call.result.err = "Cycle")

\* schedule_dag has returned, the queue is empty and every worker waits in
\* pop_task_queue
Drained ==
    /\ sched.pc = "done"
    /\ queue = <<>>
    /\ \A w \in Workers : wk[w].pc = "pop"

\* every task was executed and its canonical status is `success`
AllSucceeded ==
    \A t \in TaskIds(dag) :
        CanonicalStatus(t) = "success" /\ ExecutionsOfTask(t) >= 1

\* C37: fan-in is never lost.  With concurrent workers scheduled fairly and
\* an executor that always returns `success`, every task of a scheduled valid
\* DAG is eventually executed, its canonical status is eventually `success`
\* and stays `success` once the queue has drained; no interleaving of
\* parents completing concurrently leaves a child un-enqueued.
C37_FanInNeverLost ==
    /\ <>[](Drained /\ AllSucceeded)
    /\ [](Drained => AllSucceeded)

\* a drained run in which the two parents of a fan-in task completed
\* concurrently and both enqueued it
C37_Witness ==
    /\ Drained /\ AllSucceeded
    /\ \E t \in TaskIds(dag) : Len(dag.deps[t]) > 1 /\ ExecutionsOfTask(t) = 2

\* task u depends on task t, directly or through other tasks
Descendant(u, t) == DependsOn(dag, u, t, Len(dag.ids))

\* no status was written for task u, nothing of it was pushed or executed and
\* no payload of it is on the queue or held by a worker
Untouched(u) ==
    /\ CanonicalStatus(u) = "absent"
    /\ \A k \in Attempts :
          /\ AttemptStatus(u, k) = "absent"
          /\ Count(pushes, TaskRunId(RunId, u, k)) = 0
          /\ Count(executions, TaskRunId(RunId, u, k)) = 0
    /\ \A i \in DOMAIN queue : queue[i].task_id # u
    /\ \A w \in Workers : wk[w].payload.task_id # u

\* no task that u depends on has failed for good
Unblocked(u) ==
    \A t \in TaskIds(dag) : Descendant(u, t) => CanonicalStatus(t) \notin Failures

\* C38: failure isolation.  With a single worker, when a task ends with
\* canonical status `failed` or `timeout` after exhausting its retries, no
\* task that depends on it directly or transitively is ever marked `queued`,
\* pushed or executed in that run, and the tasks that do not depend on a
\* failed task still run to completion.
C38_FailureIsolation ==
    /\ [](\A t, u \in TaskIds(dag) : (Exhausted(t) /\ Descendant(u, t)) => Untouched(u))
    /\ [](Drained =>
            \A u \in TaskIds(dag) :
                Unblocked(u) =>
                    /\ CanonicalStatus(u) \in {"success", "failed", "timeout"}
                    /\ ExecutionsOfTask(u) >= 1)
    /\ <>[]Drained

\* a drained run in which a task failed for good, a task depending on it
\* through another task was left alone and a task not depending on it
\* succeeded
C38_Witness ==
    /\ Drained
    /\ \E t, u, v \in TaskIds(dag) :
          /\ Exhausted(t)
          /\ Descendant(u, t) /\ t \notin Range(dag.deps[u]) /\ Untouched(u)
          /\ ~Descendant(v, t) /\ v # t /\ CanonicalStatus(v) = "success"

\* Worker.run has returned
Returned1 == wk[1].pc = "stopped"

\* C39: the one-shot worker terminates.  For every valid DAG and every
\* pattern of execution results, Worker.run(loop_forever=False) started after
\* schedule_dag processes payloads until a pop returns nothing and then
\* returns; it always returns, and then the queue is empty and no task has
\* canonical status `queued` or `running`.
C39_OneShotTerminates ==
    /\ <>[]Returned1
    /\ [](Returned1 =>
            /\ queue = <<>>
            /\ \A t \in TaskIds(dag) : CanonicalStatus(t) \notin {"queued", "running"})
    /\ [][Returned1' =>
            \/ Returned1
            \/ wk[1].pc = "pop" /\ queue = <<>>]_vars

\* Worker.run returned after a run with a retry that succeeded, a task that
\* failed for good and a task that never ran
C39_Witness ==
    /\ Returned1
    /\ \E t, u, v \in TaskIds(dag) :
          /\ AttemptStatus(t, 0) \in Failures /\ AttemptStatus(t, 1) = "success"
          /\ CanonicalStatus(u) \in Failures
          /\ CanonicalStatus(v) = "absent"

====
